---- MODULE Spec2Model ----
(***************************************************************************)
(* Model of the archivist task execution engine: Executor.Execute, the     *)
(* run body (runExecution / runSyncExecution), retention, Cancel, and the  *)
(* history-store rows and progress events the executor produces.           *)
(***************************************************************************)
EXTENDS Integers, Sequences, FiniteSets, TLC

\* ---------------------------------------------------------------- bounds
\* number of execution IDs uuid.New() hands out in one behaviour
MaxExec == 2
\* progress callbacks the builder and the backends make in one behaviour
MaxProgress == 1
\* matching archives a backend's List returns to retention
MaxListed == 2
\* environment failures (I/O, network, database errors) in one behaviour
MaxFaults == 1

\* ------------------------------------------------------- configuration
\* goroutines that call Executor.Execute: the HTTP handler and the cron driver
Callers == {"api", "cron"}

ExecIDs == 1..MaxExec

\* the config store's backends, by ID
Backends ==
    [b \in {"b1", "b2"} |->
        IF b = "b1" THEN [Type |-> "local", Name |-> "B1"]
                    ELSE [Type |-> "s3", Name |-> "B2"]]

\* the config store's tasks, by ID; UpdateTask accepts a task without
\* backend IDs (t4)
Tasks ==
    [t \in {"t1", "t2", "t3", "t4"} |->
        CASE t = "t1" -> [Enabled |-> TRUE, Format |-> "tar.gz",
                          BackendIDs |-> <<"b1", "b2">>, KeepLast |-> 1]
          [] t = "t2" -> [Enabled |-> TRUE, Format |-> "sync",
                          BackendIDs |-> <<"b2", "b1">>, KeepLast |-> 0]
          [] t = "t4" -> [Enabled |-> TRUE, Format |-> "tar.gz",
                          BackendIDs |-> <<>>, KeepLast |-> 0]
          [] OTHER    -> [Enabled |-> FALSE, Format |-> "tar.gz",
                          BackendIDs |-> <<"b1">>, KeepLast |-> 0]]

TaskIDs == DOMAIN Tasks

\* task IDs a caller may pass to Execute; "t0" is in no config
RequestIDs == TaskIDs \cup {"t0"}

TerminalStatus == {"success", "failed", "cancelled"}

TerminalEvents == {"execution_completed", "execution_failed"}

ProgressEvents == {"archive_progress", "upload_progress", "sync_progress"}

NoMessage == [fmt |-> "", args |-> <<>>, details |-> <<>>]

VARIABLES
    running,        \* Executor.running: taskID -> ID of the RunningExecution
    cancelledAt,    \* per execution: "none", or when Cancel cancelled its ctx:
                    \* "inflight" (archive creation, upload or sync under way) or "idle"
    executions,     \* history store, table executions: id -> row
    backend_uploads,\* history store, table backend_uploads, per execution_id in insert order
    events,         \* events handed to broadcastEvent, per execution_id in emit order
    nextID,         \* next execution ID
    callerPc,       \* position of each caller inside Execute
    callerTask,     \* taskID argument of the Execute in progress
    callerExec,     \* executionID created by the Execute in progress
    refused,        \* the last Execute call that returned an error: its caller and
                    \* the error, "" before the first
    pc,             \* position of each run goroutine
    exec,           \* the run's in-memory models.Execution
    idx,            \* loop index over task.BackendIDs / backendResults
    backendResults, \* the run's backendResults slice
    uploadErrors,   \* the run's uploadErrors / syncErrors slice
    attempts,       \* backend IDs passed to uploadToBackend / syncToBackend, in call order
    calls,          \* calls made on backend instances, in order
    updateCalls,    \* number of UpdateExecution calls made by the run
    lastRun,        \* config store: task.LastRun, as the execution that set it
    faults,         \* environment failures so far
    progressed,     \* progress callbacks so far
    scope,          \* what one behaviour may contain: executions, failures, callbacks,
                    \* failed saves
    archiveFile,    \* per execution, the archive file of the run in the temp directory:
                    \* "none", "partial", "complete" or "removed"
    remote,         \* retention: the entries a backend holds
    listing,        \* retention: allFiles, what the backend's List returned
    backups,        \* retention: the filtered slice backups
    deleted,        \* retention: paths passed to Delete, in call order
    trimPc,         \* retention: position in upload / applyRetentionPolicy
    trimTask,       \* retention: the task of the run, Name and KeepLast
    config,         \* config store: Manager.config, the in-memory document
    disk,           \* config store: the document in the file at configPath
    lastCall,       \* config store: how the last call made on it returned: "ok",
                    \* "save_failed", or the error it refused the call with
    saveFaults,     \* config store: failures of saveInternal so far
    handle,         \* config store: the read whose returned value a caller holds
    localFiles,     \* sync: what scanLocalFiles found
    remoteFiles,    \* sync: what the backend's List returned
    syncer,         \* sync: the Syncer's RemotePath and Options.DeleteRemote
    details,        \* sync: the classification computed by Sync or DryRun
    syncPc,         \* sync: "off", "ready", "planned" after DryRun, "syncing" inside
                    \* Sync, "returned" after it
    syncTodo,       \* sync: the local files the loop of Sync has not reached
    syncMap,        \* sync: remoteFileMap of the Sync in progress
    syncResult,     \* sync: the SyncResult of the Sync in progress
    syncCalls,      \* sync: Upload and Delete calls made on the backend, in order
    backendResult,  \* sync: the BackendResult syncToBackend returns
    runBackends,    \* sync run: task.BackendIDs of the run
    runPc,          \* sync run: "off", "loop" over the backends, "done"
    runResults,     \* sync run: backendResults, with Status and Size
    runErrors,      \* sync run: number of entries of syncErrors
    totalBytesUploaded, \* sync run: the accumulator of runSyncExecution
    sent,           \* sync run: bytes of the files Upload accepted, all backends
    runExecution,   \* sync run: the execution's Status and ArchiveSize
    schedTasks,     \* scheduler: the config store's tasks, in list order
    cronEntries,    \* scheduler: the entries the cron driver holds
    entries,        \* scheduler: Scheduler.entries, taskID -> entryID
    nextEntryID,    \* scheduler: the ID the cron driver gives the next entry
    fired,          \* scheduler: the task ID the last fired callback passed to Execute
    fires,          \* scheduler: number of callbacks fired
    lastOp,         \* scheduler: the last operation that returned, with its result
    proc,           \* scheduler: position and locals of each goroutine inside an operation
    storeFaults,    \* scheduler: failed saves of the config store so far
    clearPc,        \* history: position inside ClearHistory
    txUploads,      \* history: backend_uploads as the open transaction sees it
    txExecutions,   \* history: executions as the open transaction sees it
    clearErr,       \* history: what ClearHistory returned
    histBefore,     \* history: the two tables when ClearHistory was called
    dryPc,          \* dry run: position inside ExecuteDryRun
    dryTask,        \* dry run: the taskID argument
    dryBackendIDs,  \* dry run: the backendIDs argument, then the list in use
    dryIdx,         \* dry run: loop index over the backend IDs
    dryErr,         \* dry run: the error ExecuteDryRun returned
    backendDir,     \* dry run: the base directory of the local backend
    backendWrites,  \* dry run: writing calls made on backends, in order
    dirBefore,      \* dry run: backendDir when ExecuteDryRun was called
    nameArg,        \* filename: the task name GenerateFilename is called with
    wsClients,      \* progress: Server.wsClients, the registered connections
    wsReaders,      \* progress: the emitters holding the read lock of Server.wsMu
    peer,           \* progress: what the other end of each connection does:
                    \* "reading", "stalled" (open, consumes nothing more) or "closed"
    sendBuf,        \* progress: frames written to each connection and not yet consumed
    emitPc,         \* progress: position of each run: "run", "locked" inside
                    \* BroadcastProgress, "writing" inside WriteJSON, "done"
    emitTodo,       \* progress: the clients the range loop has not reached
    emitConn,       \* progress: the connection WriteJSON is writing to
    emitLeft,       \* progress: events the run has yet to emit
    tarPc,          \* builder: position inside Build / createTarGz and the upload
                    \* loop of runExecution that follows
    tarTodo,        \* builder: the entries filepath.Walk has not visited, in walk order
    compression,    \* builder: Options.Compression
    gzipBuf,        \* builder: what the gzip writer took and has not written out
    outFile,        \* builder: the content of the output file; the hasher has taken
                    \* the same writes
    tarResult,      \* builder: hash, size and err that createTarGz returns
    tarCancelledAt, \* builder: "none", or tarPc when the run's ctx was cancelled
    tarUploads,     \* builder: Upload calls made with the archive
    rangeOp,        \* range loop: the operation whose loop runs, Start or ReloadSchedules
    rangeTasks,     \* range loop: the slice GetTasks returned
    rangeIdx,       \* range loop: iterations done
    taskVars,       \* range loop: the variables named task the loop has made, each
                    \* with the value it holds now
    callbacks,      \* range loop: the closures AddFunc was given: the cron entry, the
                    \* variable the closure refers to, the key of s.entries
    pushedNext,     \* range loop: per task ID, the entry whose Next was stored as its
                    \* next_run, 0 if none
    executed,       \* range loop: the calls of Execute made by callbacks: the entry
                    \* that fired and the task ID passed
    taskTimes,      \* task times: LastRun and NextRun of each task in the config
                    \* store, 0 for nil
    clock,          \* task times: the time now
    finishedAt,     \* task times: per task, when its last finished run completed
    computedNext,   \* task times: per task, the next fire time computed last
    sanitized       \* filename: the results of sanitizeFilename so far, on the name
                    \* first, then on its own result

executorVars == <<running, cancelledAt, executions, backend_uploads, events, nextID,
                  callerPc, callerTask, callerExec, refused, pc, exec, idx, backendResults,
                  uploadErrors, attempts, calls, updateCalls, lastRun, faults, progressed,
                  scope, archiveFile>>

trimVars == <<remote, listing, backups, deleted, trimPc, trimTask>>

\* the state of the parts of the program the executor's steps do not touch
cfgVars == <<config, disk, lastCall, saveFaults, handle>>

syncVars == <<localFiles, remoteFiles, syncer, details, syncPc, syncTodo, syncMap, syncResult,
              syncCalls, backendResult>>

sizeVars == <<runBackends, runPc, runResults, runErrors, totalBytesUploaded, sent,
              runExecution>>

\* the parts modelled further down
schedVars == <<schedTasks, cronEntries, entries, nextEntryID, fired, fires, lastOp, proc,
               storeFaults>>

histVars == <<clearPc, txUploads, txExecutions, clearErr, histBefore>>

dryVars == <<dryPc, dryTask, dryBackendIDs, dryIdx, dryErr, backendDir, backendWrites,
             dirBefore>>

nameVars == <<nameArg, sanitized>>

\* the parts modelled last
wsVars == <<wsClients, wsReaders, peer, sendBuf, emitPc, emitTodo, emitConn, emitLeft>>

tarVars == <<tarPc, tarTodo, compression, gzipBuf, outFile, tarResult, tarCancelledAt,
             tarUploads>>

rangeVars == <<rangeOp, rangeTasks, rangeIdx, taskVars, callbacks, pushedNext, executed>>

timeVars == <<taskTimes, clock, finishedAt, computedNext>>

lateVars == <<nameVars, wsVars, tarVars, rangeVars, timeVars>>

moreVars == <<sizeVars, schedVars, histVars, dryVars, lateVars>>

\* what the steps of a sync run, and of the scheduler, leave alone
outsideSyncRun == <<executorVars, trimVars, cfgVars, syncVars, schedVars, histVars, dryVars,
                    lateVars>>

outsideSched == <<executorVars, trimVars, cfgVars, syncVars, sizeVars, histVars, dryVars,
                  lateVars>>

otherVars == <<trimVars, cfgVars, syncVars, moreVars>>

vars == <<executorVars, otherVars>>

callerVars == <<callerPc, callerTask, callerExec, refused>>

runVars == <<pc, exec, idx, backendResults, uploadErrors, attempts, calls, updateCalls>>

\* ------------------------------------------------------------- helpers
\* ctx.Done() of the run's context
ctxDone(e) == cancelledAt[e] # "none"

MapPut(m, k, v) == [x \in DOMAIN m \cup {k} |-> IF x = k THEN v ELSE m[x]]

MapDelete(m, k) == [x \in DOMAIN m \ {k} |-> m[x]]

Repeat(x, n) == [i \in 1..n |-> x]

\* Database.CreateExecution: INSERT INTO executions
CreateExecution(rows, e, t) ==
    MapPut(rows, e, [task_id |-> t, status |-> "running",
                     error_message |-> NoMessage, completed |-> FALSE])

\* Database.UpdateExecution: UPDATE executions SET ... WHERE id = ?
UpdateExecution(rows, e, x) ==
    IF e \in DOMAIN rows
    THEN [rows EXCEPT ![e] = [task_id |-> rows[e].task_id, status |-> x.Status,
                              error_message |-> x.ErrorMessage, completed |-> TRUE]]
    ELSE rows

\* Database.AddBackendUpload: INSERT INTO backend_uploads
AddBackendUpload(rows, e, r) ==
    [rows EXCEPT ![e] = Append(@, [backend_id |-> r.BackendID, status |-> r.Status])]

\* Executor.broadcastEvent
broadcastEvent(ev, e, type) == [ev EXCEPT ![e] = Append(@, type)]

\* errorDetails: "backend <name>: <message>" for each failed result
ErrorDetail(r) == <<r.BackendName, r.ErrorMessage>>

\* variant of the archive roll-up in which any failed backend fails the
\* execution; the roll-up of C6 must tell it from the code's
RollUpAnyFailure(errs, n) ==
    IF Len(errs) > 0
    THEN [Status |-> "failed",
          ErrorMessage |-> [fmt |-> "All backend uploads failed: %s", args |-> <<>>, details |-> errs]]
    ELSE [Status |-> "success", ErrorMessage |-> NoMessage]

\* status roll-up of runExecution (archive mode)
RollUpArchive(errs, n) ==
    IF Len(errs) = n
    THEN [Status |-> "failed",
          ErrorMessage |-> [fmt |-> "All backend uploads failed: %s", args |-> <<>>, details |-> errs]]
    ELSE IF Len(errs) > 0
    THEN [Status |-> "success",
          ErrorMessage |-> [fmt |-> "%d of %d backends failed: %s", args |-> <<Len(errs), n>>, details |-> errs]]
    ELSE [Status |-> "success", ErrorMessage |-> NoMessage]

\* status roll-up of runSyncExecution (sync mode)
RollUpSync(errs, n) ==
    IF Len(errs) = n
    THEN [Status |-> "failed",
          ErrorMessage |-> [fmt |-> "All backend syncs failed: %s", args |-> <<>>, details |-> errs]]
    ELSE IF Len(errs) > 0
    THEN [Status |-> "success",
          ErrorMessage |-> [fmt |-> "%d of %d backends failed: %s", args |-> <<Len(errs), n>>, details |-> errs]]
    ELSE [Status |-> "success", ErrorMessage |-> NoMessage]

\* ---------------------------------------------------------------- Init
\* no retention pass in progress
TrimIdle ==
    /\ remote = {}
    /\ listing = <<>>
    /\ backups = <<>>
    /\ deleted = <<>>
    /\ trimPc = "off"
    /\ trimTask = [Name |-> <<>>, KeepLast |-> 0]

\* Version of a document written by this program
ConfigVersion == "1.0"

\* the document CreateDefault writes: no backends, no tasks
DefaultConfig ==
    [Version |-> ConfigVersion, Settings |-> "default", Backends |-> <<>>, Tasks |-> <<>>]

NoCall == "none"

NoHandle == [op |-> "none", id |-> ""]

\* the config store holding document doc, loaded from disk, no call made
CfgLoaded(doc) ==
    /\ config = doc
    /\ disk = doc
    /\ lastCall = NoCall
    /\ saveFaults = 0
    /\ handle = NoHandle

CfgIdle == CfgLoaded(DefaultConfig)

NoDetails ==
    [op |-> "none", FilesToUpload |-> {}, FilesToSkip |-> {}, FilesToDelete |-> {},
     Reason |-> <<>>]

\* the SyncResult Sync starts with; Skipped names the files counted by
\* FilesSkipped
NoResult ==
    [FilesUploaded |-> 0, FilesSkipped |-> 0, FilesDeleted |-> 0, BytesUploaded |-> 0,
     Errors |-> <<>>, Skipped |-> {}]

\* no Syncer constructed
SyncIdle ==
    /\ localFiles = {}
    /\ remoteFiles = <<>>
    /\ syncer = [RemotePath |-> <<>>, DeleteRemote |-> FALSE]
    /\ details = NoDetails
    /\ syncPc = "off"
    /\ syncTodo = {}
    /\ syncMap = <<>>
    /\ syncResult = NoResult
    /\ syncCalls = <<>>
    /\ backendResult = [Status |-> "", Size |-> 0]

\* no sync run in progress
SizeIdle ==
    /\ runBackends = <<>>
    /\ runPc = "off"
    /\ runResults = <<>>
    /\ runErrors = 0
    /\ totalBytesUploaded = 0
    /\ sent = 0
    /\ runExecution = [Status |-> "running", ArchiveSize |-> 0]

\* goroutines that call into the scheduler: HTTP handlers
SchedProcs == {"p1", "p2"}

SimpleSchedule(simpleType) == [Type |-> "simple", SimpleType |-> simpleType, CronExpr |-> ""]

CronSchedule(expr) == [Type |-> "cron", SimpleType |-> "", CronExpr |-> expr]

ManualSchedule == [Type |-> "manual", SimpleType |-> "", CronExpr |-> ""]

\* a task of the config store, as far as the scheduler reads it
SchedTask(id, enabled, schedule) ==
    [ID |-> id, Enabled |-> enabled, Schedule |-> schedule, NextRun |-> 0]

\* a goroutine outside every scheduler operation
IdleProc ==
    [pc |-> "idle", op |-> "", task |-> SchedTask("", FALSE, ManualSchedule), entry |-> 0,
     todo |-> <<>>, errs |-> 0]

\* NewScheduler: an empty entry map and a cron driver without entries
NewScheduler ==
    /\ cronEntries = {}
    /\ entries = <<>>
    /\ nextEntryID = 1
    /\ fired = ""
    /\ fires = 0
    /\ lastOp = [op |-> "NewScheduler", id |-> "", err |-> ""]
    /\ proc = [p \in SchedProcs |-> IdleProc]
    /\ storeFaults = 0

\* no scheduler constructed over any task
SchedIdle == schedTasks = <<>> /\ NewScheduler

\* the two history tables of a database
Tables(uploads, rows) == [backend_uploads |-> uploads, executions |-> rows]

NoUploads == [e \in ExecIDs |-> <<>>]

\* no ClearHistory called, no transaction open
HistIdle ==
    /\ clearPc = "off"
    /\ txUploads = NoUploads
    /\ txExecutions = <<>>
    /\ clearErr = ""
    /\ histBefore = Tables(NoUploads, <<>>)

\* a directory that does not exist
NoDir == [Exists |-> FALSE, Files |-> {}]

\* no ExecuteDryRun called
DryIdle ==
    /\ dryPc = "off"
    /\ dryTask = "t0"
    /\ dryBackendIDs = <<>>
    /\ dryIdx = 0
    /\ dryErr = ""
    /\ backendDir = NoDir
    /\ backendWrites = <<>>
    /\ dirBefore = NoDir

\* no file name asked for
NameIdle ==
    /\ nameArg = <<>>
    /\ sanitized = <<>>

\* the connections a browser may open on /ws/progress
Conns == {"c1", "c2"}

\* the runs that emit events
Emitters == {"r1", "r2"}

\* no connection, no run
WsIdle ==
    /\ wsClients = {}
    /\ wsReaders = {}
    /\ peer = [c \in Conns |-> "closed"]
    /\ sendBuf = [c \in Conns |-> 0]
    /\ emitPc = [r \in Emitters |-> "done"]
    /\ emitTodo = [r \in Emitters |-> {}]
    /\ emitConn = [r \in Emitters |-> ""]
    /\ emitLeft = [r \in Emitters |-> 0]

NoTarResult == [hash |-> <<>>, size |-> 0, err |-> ""]

\* no archive being built
TarIdle ==
    /\ tarPc = "off"
    /\ tarTodo = <<>>
    /\ compression = ""
    /\ gzipBuf = <<>>
    /\ outFile = <<>>
    /\ tarResult = NoTarResult
    /\ tarCancelledAt = "none"
    /\ tarUploads = 0

\* no loop over the tasks
RangeIdle ==
    /\ rangeOp = ""
    /\ rangeTasks = <<>>
    /\ rangeIdx = 0
    /\ taskVars = <<>>
    /\ callbacks = {}
    /\ pushedNext = <<>>
    /\ executed = {}

\* the tasks whose times are followed
TimedTasks == {"t1", "t2"}

\* the tasks of the config store with no run and no schedule yet
TimesIdle ==
    /\ taskTimes = [id \in TimedTasks |-> [LastRun |-> 0, NextRun |-> 0]]
    /\ clock = 1
    /\ finishedAt = [id \in TimedTasks |-> 0]
    /\ computedNext = [id \in TimedTasks |-> 0]

LateIdle == NameIdle /\ WsIdle /\ TarIdle /\ RangeIdle /\ TimesIdle

MoreIdle == SizeIdle /\ SchedIdle /\ HistIdle /\ DryIdle /\ LateIdle

OtherIdle == TrimIdle /\ CfgIdle /\ SyncIdle /\ MoreIdle

\* no execution started
\* a new Executor over a history store that holds the given rows
ExecutorOver(sc, rows, uploads) ==
    /\ scope = sc
    /\ running = <<>>
    /\ cancelledAt = [e \in ExecIDs |-> "none"]
    /\ executions = rows
    /\ backend_uploads = uploads
    /\ events = [e \in ExecIDs |-> <<>>]
    /\ nextID = 1
    /\ callerPc = [c \in Callers |-> "idle"]
    /\ callerTask = [c \in Callers |-> "t0"]
    /\ callerExec = [c \in Callers |-> 0]
    /\ refused = [caller |-> "", err |-> ""]
    /\ pc = [e \in ExecIDs |-> "none"]
    /\ exec = [e \in ExecIDs |-> [TaskID |-> "t0", Status |-> "", ErrorMessage |-> NoMessage]]
    /\ idx = [e \in ExecIDs |-> 0]
    /\ backendResults = [e \in ExecIDs |-> <<>>]
    /\ uploadErrors = [e \in ExecIDs |-> <<>>]
    /\ attempts = [e \in ExecIDs |-> <<>>]
    /\ calls = [e \in ExecIDs |-> <<>>]
    /\ updateCalls = [e \in ExecIDs |-> 0]
    /\ lastRun = [t \in TaskIDs |-> 0]
    /\ faults = 0
    /\ progressed = 0
    /\ archiveFile = [e \in ExecIDs |-> "none"]

ExecutorIdle(sc) == ExecutorOver(sc, <<>>, [e \in ExecIDs |-> <<>>])

InitState(sc) == ExecutorIdle(sc) /\ OtherIdle

\* one execution, from Execute to the end of its run, with environment
\* failures and progress callbacks
Init == InitState([execs |-> 1, faults |-> MaxFaults, progress |-> MaxProgress])

\* several executions side by side, in an environment that does not fail
InitConcurrent == InitState([execs |-> MaxExec, faults |-> 0, progress |-> 0])

\* ------------------------------------------------------- environment
\* n more environment failures, within the bound
Charge(n) == /\ faults + n <= scope.faults
             /\ faults' = faults + n

Cost(ok) == IF ok THEN 0 ELSE 1

\* k more progress callbacks, within the bound
Report(k) == /\ progressed + k <= scope.progress
             /\ progressed' = progressed + k

\* ------------------------------------------------- Executor.Execute
\* GetTask, the Enabled test and the read-locked test of e.running; each
\* failing test returns an error and changes nothing
ExecuteCheck(c, t) ==
    /\ callerPc[c] = "idle"
    /\ t \in TaskIDs
    /\ Tasks[t].Enabled
    /\ t \notin DOMAIN running
    /\ callerPc' = [callerPc EXCEPT ![c] = "create"]
    /\ callerTask' = [callerTask EXCEPT ![c] = t]
    /\ UNCHANGED <<running, cancelledAt, executions, backend_uploads, events, nextID,
                   callerExec, refused, lastRun, faults, progressed, scope>>
    /\ UNCHANGED runVars
    /\ UNCHANGED <<archiveFile, otherVars>>

\* uuid.New and db.CreateExecution, outside any lock
ExecuteCreate(c, dbOk) ==
    /\ callerPc[c] = "create"
    /\ nextID <= scope.execs
    /\ Charge(Cost(dbOk))
    /\ IF dbOk
       THEN /\ executions' = CreateExecution(executions, nextID, callerTask[c])
            /\ nextID' = nextID + 1
            /\ callerExec' = [callerExec EXCEPT ![c] = nextID]
            /\ callerPc' = [callerPc EXCEPT ![c] = "track"]
            /\ exec' = [exec EXCEPT ![nextID] =
                            [TaskID |-> callerTask[c], Status |-> "running",
                             ErrorMessage |-> NoMessage]]
            /\ UNCHANGED <<callerTask, refused>>
       ELSE /\ callerPc' = [callerPc EXCEPT ![c] = "idle"]
            /\ callerTask' = [callerTask EXCEPT ![c] = "t0"]
            /\ refused' = [caller |-> c, err |-> "failed to create execution record"]
            /\ UNCHANGED <<executions, nextID, callerExec, exec>>
    /\ UNCHANGED <<running, cancelledAt, backend_uploads, events, lastRun, progressed, scope,
                   pc, idx, backendResults, uploadErrors, attempts, calls, updateCalls>>
    /\ UNCHANGED <<archiveFile, otherVars>>

\* variant of the last step of Execute that starts the run without the
\* execution_started broadcast; the event order of C5 must tell it from the code's
ExecuteTrackUnannounced(c) ==
    /\ callerPc[c] = "track"
    /\ running' = MapPut(running, callerTask[c], callerExec[c])
    /\ pc' = [pc EXCEPT ![callerExec[c]] = "spawned"]
    /\ callerPc' = [callerPc EXCEPT ![c] = "idle"]
    /\ callerTask' = [callerTask EXCEPT ![c] = "t0"]
    /\ callerExec' = [callerExec EXCEPT ![c] = 0]
    /\ UNCHANGED refused
    /\ UNCHANGED <<cancelledAt, executions, backend_uploads, events, nextID, lastRun, faults,
                   scope, progressed, exec, idx, backendResults, uploadErrors, attempts,
                   calls, updateCalls>>
    /\ UNCHANGED <<archiveFile, otherVars>>

\* e.running[taskID] = ... under the write lock, the execution_started
\* broadcast, the go statement and the return of the execution ID
ExecuteTrack(c) ==
    /\ callerPc[c] = "track"
    /\ running' = MapPut(running, callerTask[c], callerExec[c])
    /\ events' = broadcastEvent(events, callerExec[c], "execution_started")
    /\ pc' = [pc EXCEPT ![callerExec[c]] = "spawned"]
    /\ callerPc' = [callerPc EXCEPT ![c] = "idle"]
    /\ callerTask' = [callerTask EXCEPT ![c] = "t0"]
    /\ callerExec' = [callerExec EXCEPT ![c] = 0]
    /\ UNCHANGED refused
    /\ UNCHANGED <<cancelledAt, executions, backend_uploads, nextID, lastRun, faults, scope,
                   progressed, exec, idx, backendResults, uploadErrors, attempts, calls,
                   updateCalls>>
    /\ UNCHANGED <<archiveFile, otherVars>>

\* the error Execute returns from its tests, in the order it makes them:
\* GetTask, task.Enabled, the read-locked look-up in e.running; "" when all pass
ExecuteError(t) ==
    IF t \notin TaskIDs THEN "failed to get task"
    ELSE IF ~Tasks[t].Enabled THEN "task is disabled"
    ELSE IF t \in DOMAIN running THEN "task is already running"
    ELSE ""

\* variant of a refused Execute that has put the task into e.running before
\* it returns the error; the frame of C31 must tell it from the code's
ExecuteRefuseTracked(c, t) ==
    /\ callerPc[c] = "idle"
    /\ ExecuteError(t) # ""
    /\ refused' = [caller |-> c, err |-> ExecuteError(t)]
    /\ running' = MapPut(running, t, 0)
    /\ UNCHANGED <<cancelledAt, executions, backend_uploads, events, nextID, callerPc,
                   callerTask, callerExec, lastRun, faults, progressed, scope>>
    /\ UNCHANGED runVars
    /\ UNCHANGED <<archiveFile, otherVars>>

\* Execute returning the error of a failed test
ExecuteRefuse(c, t) ==
    /\ callerPc[c] = "idle"
    /\ ExecuteError(t) # ""
    /\ refused' = [caller |-> c, err |-> ExecuteError(t)]
    /\ UNCHANGED <<running, cancelledAt, executions, backend_uploads, events, nextID,
                   callerPc, callerTask, callerExec, lastRun, faults, progressed, scope>>
    /\ UNCHANGED runVars
    /\ UNCHANGED <<archiveFile, otherVars>>

\* ---------------------------------------------------- Executor.Cancel
InFlightPc == {"build", "uploading", "syncing"}

\* variant of Cancel that also writes status cancelled to the history row;
\* the immutability of terminal rows of C4 must tell it from the code's
CancelMarksRow(e) ==
    /\ \E t \in DOMAIN running : running[t] = e
    /\ ~ctxDone(e)
    /\ cancelledAt' = [cancelledAt EXCEPT ![e] = IF pc[e] \in InFlightPc THEN "inflight" ELSE "idle"]
    /\ executions' = UpdateExecution(executions, e, [exec[e] EXCEPT !.Status = "cancelled"])
    /\ UNCHANGED <<running, backend_uploads, events, nextID, lastRun, faults, progressed, scope>>
    /\ UNCHANGED callerVars
    /\ UNCHANGED runVars
    /\ UNCHANGED <<archiveFile, otherVars>>

\* finds the RunningExecution with this ID and calls its cancel function
Cancel(e) ==
    /\ \E t \in DOMAIN running : running[t] = e
    /\ ~ctxDone(e)
    /\ cancelledAt' = [cancelledAt EXCEPT ![e] = IF pc[e] \in InFlightPc THEN "inflight" ELSE "idle"]
    /\ UNCHANGED <<running, executions, backend_uploads, events, nextID, lastRun,
                   faults, progressed, scope>>
    /\ UNCHANGED callerVars
    /\ UNCHANGED runVars
    /\ UNCHANGED <<archiveFile, otherVars>>

\* ------------------------------------------------------- the run body
TaskOf(e) == Tasks[exec[e].TaskID]

\* variant of the failure exits that returns without deleting the task's
\* entry of e.running; the clean-up of C9 must tell it from the code's
FailRunKeepsEntry(e, fmt, dbOk) ==
    LET x == [exec[e] EXCEPT !.Status = "failed",
                             !.ErrorMessage = [fmt |-> fmt, args |-> <<>>, details |-> <<>>]]
    IN /\ exec' = [exec EXCEPT ![e] = x]
       /\ executions' = IF dbOk THEN UpdateExecution(executions, e, x) ELSE executions
       /\ updateCalls' = [updateCalls EXCEPT ![e] = @ + 1]
       /\ UNCHANGED running
       /\ pc' = [pc EXCEPT ![e] = "done"]

\* the failure exits of runExecution: set failed, UpdateExecution (its error
\* is only logged), broadcastExecutionFailed, return; then Execute's deferred
\* delete(e.running, taskID)
FailRun(e, fmt, dbOk) ==
    LET x == [exec[e] EXCEPT !.Status = "failed",
                             !.ErrorMessage = [fmt |-> fmt, args |-> <<>>, details |-> <<>>]]
    IN /\ exec' = [exec EXCEPT ![e] = x]
       /\ executions' = IF dbOk THEN UpdateExecution(executions, e, x) ELSE executions
       /\ updateCalls' = [updateCalls EXCEPT ![e] = @ + 1]
       /\ running' = MapDelete(running, exec[e].TaskID)
       /\ pc' = [pc EXCEPT ![e] = "done"]

\* runExecution up to the mode switch: os.Stat(sourcePath)
RunStat(e, ok, dbOk) ==
    /\ pc[e] = "spawned"
    /\ IF ok
       THEN /\ dbOk
            /\ Charge(0)
            /\ pc' = [pc EXCEPT ![e] = IF TaskOf(e).Format = "sync" THEN "sync" ELSE "build"]
            /\ idx' = [idx EXCEPT ![e] = 1]
            /\ UNCHANGED <<exec, executions, updateCalls, running, events>>
       ELSE /\ Charge(1 + Cost(dbOk))
            /\ FailRun(e, "Source path not accessible: %v", dbOk)
            /\ events' = broadcastEvent(events, e, "execution_failed")
            /\ UNCHANGED idx
    /\ UNCHANGED <<cancelledAt, backend_uploads, nextID, lastRun, progressed, scope,
                   backendResults, uploadErrors, attempts, calls>>
    /\ UNCHANGED callerVars
    /\ UNCHANGED <<archiveFile, otherVars>>

\* variant of the build step that records the builder's failure and goes on
\* to the uploads; the abort of C8 must tell it from the code's
RunBuildGoesOn(e, k, ok, created, dbOk) ==
    /\ pc[e] = "build"
    /\ Report(k)
    /\ dbOk
    /\ (ok \/ k > 0) => created
    /\ archiveFile' = [archiveFile EXCEPT ![e] = IF created THEN "complete" ELSE "none"]
    /\ Charge(Cost(ok))
    /\ exec' = [exec EXCEPT ![e] =
                    IF ok THEN @
                    ELSE [@ EXCEPT !.Status = "failed",
                                   !.ErrorMessage = [fmt |-> "Failed to create archive: %v",
                                                     args |-> <<>>, details |-> <<>>]]]
    /\ pc' = [pc EXCEPT ![e] = "upload"]
    /\ events' = [events EXCEPT ![e] = @ \o Repeat("archive_progress", k)]
    /\ UNCHANGED <<executions, updateCalls, running, cancelledAt, backend_uploads, nextID,
                   lastRun, scope, idx, backendResults, uploadErrors, attempts, calls>>
    /\ UNCHANGED callerVars
    /\ UNCHANGED otherVars

\* builder.Build(task.Name) with its progress callback; Build takes no ctx.
\* created: createTarGz got as far as os.Create of the archive file; a
\* failure after that point returns without removing the file, and the
\* deferred os.Remove of runExecution is registered only after Build succeeded
RunBuild(e, k, ok, created, dbOk) ==
    /\ pc[e] = "build"
    /\ (ok \/ k > 0) => created
    /\ archiveFile' = [archiveFile EXCEPT ![e] = IF ok THEN "complete"
                                                  ELSE IF created THEN "partial" ELSE "none"]
    /\ Report(k)
    /\ IF ok
       THEN /\ dbOk
            /\ Charge(0)
            /\ pc' = [pc EXCEPT ![e] = "upload"]
            /\ events' = [events EXCEPT ![e] = @ \o Repeat("archive_progress", k)]
            /\ UNCHANGED <<exec, executions, updateCalls, running>>
       ELSE /\ Charge(1 + Cost(dbOk))
            /\ FailRun(e, "Failed to create archive: %v", dbOk)
            /\ events' = [events EXCEPT ![e] =
                              (@ \o Repeat("archive_progress", k)) \o <<"execution_failed">>]
    /\ UNCHANGED <<cancelledAt, backend_uploads, nextID, lastRun, scope, idx,
                   backendResults, uploadErrors, attempts, calls>>
    /\ UNCHANGED callerVars
    /\ UNCHANGED otherVars

FailedResult(b, msg) ==
    [BackendID |-> b, BackendName |-> Backends[b].Name, Status |-> "failed", ErrorMessage |-> msg]

SuccessResult(b) ==
    [BackendID |-> b, BackendName |-> Backends[b].Name, Status |-> "success", ErrorMessage |-> ""]

\* the loop body after uploadToBackend / syncToBackend returned r:
\* append to backendResults, AddBackendUpload (its error is only logged),
\* append to uploadErrors when r failed
RecordResult(e, r, dbOk) ==
    /\ backendResults' = [backendResults EXCEPT ![e] = Append(@, r)]
    /\ backend_uploads' = IF dbOk THEN AddBackendUpload(backend_uploads, e, r)
                                  ELSE backend_uploads
    /\ uploadErrors' = [uploadErrors EXCEPT ![e] =
                            IF r.Status = "failed" THEN Append(@, ErrorDetail(r)) ELSE @]
    /\ idx' = [idx EXCEPT ![e] = @ + 1]

\* uploadToBackend up to the call of backendInstance.Upload: a backend whose
\* Upload is entered with ctx already done returns the ctx error
RunUploadBegin(e, factoryOk, dbOk) ==
    /\ pc[e] = "upload"
    /\ idx[e] <= Len(TaskOf(e).BackendIDs)
    /\ LET b == TaskOf(e).BackendIDs[idx[e]]
           call == [op |-> "Upload", backend |-> b, done |-> ctxDone(e)]
       IN /\ attempts' = [attempts EXCEPT ![e] = Append(@, b)]
          /\ IF ~factoryOk
             THEN /\ Charge(1 + Cost(dbOk))
                  /\ RecordResult(e, FailedResult(b, "Failed to create backend: %v"), dbOk)
                  /\ UNCHANGED <<calls, pc>>
             ELSE IF ctxDone(e)
             THEN /\ Charge(Cost(dbOk))
                  /\ calls' = [calls EXCEPT ![e] = Append(@, call)]
                  /\ RecordResult(e, FailedResult(b, "context canceled"), dbOk)
                  /\ UNCHANGED pc
             ELSE /\ dbOk
                  /\ Charge(0)
                  /\ calls' = [calls EXCEPT ![e] = Append(@, call)]
                  /\ pc' = [pc EXCEPT ![e] = "uploading"]
                  /\ UNCHANGED <<backendResults, backend_uploads, uploadErrors, idx>>
    /\ UNCHANGED <<running, cancelledAt, executions, events, nextID, lastRun, progressed, scope,
                   exec, updateCalls>>
    /\ UNCHANGED callerVars
    /\ UNCHANGED <<archiveFile, otherVars>>

\* backendInstance.Upload running and returning: upload_progress events
\* (the last one with uploaded = total when it succeeds), then nil or an
\* error; the error is ctx's when ctx is done
RunUploadEnd(e, k, ok, dbOk) ==
    /\ pc[e] = "uploading"
    /\ Report(k)
    /\ Charge((IF ok \/ ctxDone(e) THEN 0 ELSE 1) + Cost(dbOk))
    /\ LET b == TaskOf(e).BackendIDs[idx[e]]
           msg == IF ctxDone(e) THEN "context canceled" ELSE "upload failed"
       IN /\ events' = [events EXCEPT ![e] =
                            @ \o Repeat("upload_progress", k + (IF ok THEN 1 ELSE 0))]
          /\ RecordResult(e, IF ok THEN SuccessResult(b) ELSE FailedResult(b, msg), dbOk)
    /\ pc' = [pc EXCEPT ![e] = "upload"]
    /\ UNCHANGED <<running, cancelledAt, executions, nextID, lastRun, scope, exec, attempts,
                   calls, updateCalls>>
    /\ UNCHANGED callerVars
    /\ UNCHANGED <<archiveFile, otherVars>>

\* syncToBackend up to the call of syncer.Sync(ctx), which first reports
\* the phase scanning_local
RunSyncBegin(e, factoryOk, dbOk) ==
    /\ pc[e] = "sync"
    /\ idx[e] <= Len(TaskOf(e).BackendIDs)
    /\ LET b == TaskOf(e).BackendIDs[idx[e]]
           call == [op |-> "Sync", backend |-> b, done |-> ctxDone(e)]
       IN /\ attempts' = [attempts EXCEPT ![e] = Append(@, b)]
          /\ IF ~factoryOk
             THEN /\ Charge(1 + Cost(dbOk))
                  /\ RecordResult(e, FailedResult(b, "Failed to create backend: %v"), dbOk)
                  /\ UNCHANGED <<calls, pc, events>>
             ELSE /\ dbOk
                  /\ Charge(0)
                  /\ calls' = [calls EXCEPT ![e] = Append(@, call)]
                  /\ events' = broadcastEvent(events, e, "sync_progress")
                  /\ pc' = [pc EXCEPT ![e] = "syncing"]
                  /\ UNCHANGED <<backendResults, backend_uploads, uploadErrors, idx>>
    /\ UNCHANGED <<running, cancelledAt, executions, nextID, lastRun, progressed, scope, exec,
                   updateCalls>>
    /\ UNCHANGED callerVars
    /\ UNCHANGED <<archiveFile, otherVars>>

\* phases syncer.Sync reports after scanning_local, by how far it got:
\* the scan failed, the remote listing failed, or the file loop ran
\* (listing_remote, syncing, k files, completed)
SyncReports(stage, k) ==
    IF stage = "scan" THEN <<>>
    ELSE IF stage = "list" THEN <<"sync_progress">>
    ELSE Repeat("sync_progress", 3 + k)

\* syncer.Sync running and returning
RunSyncEnd(e, k, stage, ok, dbOk) ==
    /\ pc[e] = "syncing"
    /\ ok => stage = "file"
    /\ stage # "file" => k = 0
    /\ Report(k)
    /\ Charge((IF ok \/ (ctxDone(e) /\ stage # "scan") THEN 0 ELSE 1) + Cost(dbOk))
    /\ LET b == TaskOf(e).BackendIDs[idx[e]]
           msg == IF stage = "scan" THEN "failed to scan local files: %w"
                  ELSE IF stage = "list" THEN "failed to list remote files: %w"
                  ELSE "failed to upload %s: %w"
       IN /\ events' = [events EXCEPT ![e] = @ \o SyncReports(stage, k)]
          /\ RecordResult(e, IF ok THEN SuccessResult(b) ELSE FailedResult(b, msg), dbOk)
    /\ pc' = [pc EXCEPT ![e] = "sync"]
    /\ UNCHANGED <<running, cancelledAt, executions, nextID, lastRun, scope, exec, attempts,
                   calls, updateCalls>>
    /\ UNCHANGED callerVars
    /\ UNCHANGED <<archiveFile, otherVars>>

\* the status roll-up of the mode the run is in
RollUp(e) ==
    IF TaskOf(e).Format = "sync"
    THEN RollUpSync(uploadErrors[e], Len(TaskOf(e).BackendIDs))
    ELSE RollUpArchive(uploadErrors[e], Len(TaskOf(e).BackendIDs))

\* whether runExecution reaches applyRetentionPolicy
RetentionApplies(e) == TaskOf(e).Format # "sync" /\ TaskOf(e).KeepLast > 0

\* after the loop: status roll-up, UpdateExecution (its error is only logged),
\* UpdateTaskSchedule(task.ID, &now, nil)
RunFinalize(e, dbOk) ==
    /\ pc[e] \in {"upload", "sync"}
    /\ idx[e] > Len(TaskOf(e).BackendIDs)
    /\ Charge(Cost(dbOk))
    /\ LET x == [exec[e] EXCEPT !.Status = RollUp(e).Status,
                                !.ErrorMessage = RollUp(e).ErrorMessage]
       IN /\ exec' = [exec EXCEPT ![e] = x]
          /\ executions' = IF dbOk THEN UpdateExecution(executions, e, x) ELSE executions
    /\ updateCalls' = [updateCalls EXCEPT ![e] = @ + 1]
    /\ lastRun' = [lastRun EXCEPT ![exec[e].TaskID] = e]
    /\ IF RetentionApplies(e) /\ Len(backendResults[e]) > 0
       THEN /\ pc' = [pc EXCEPT ![e] = "retention"]
            /\ idx' = [idx EXCEPT ![e] = 1]
       ELSE /\ pc' = [pc EXCEPT ![e] = "complete"]
            /\ UNCHANGED idx
    /\ UNCHANGED <<running, cancelledAt, backend_uploads, events, nextID, progressed,
                   scope, backendResults, uploadErrors, attempts, calls>>
    /\ UNCHANGED callerVars
    /\ UNCHANGED <<archiveFile, otherVars>>

RetentionOutcomes == {"skipped", "factory_failed", "list_failed", "listed"}

\* calls applyRetentionPolicy makes on the backend of result r: none when r
\* failed or the factory failed, List, and Delete for each listed match
\* beyond KeepLast
RetentionCalls(r, outcome, n, keepLast, done) ==
    LET list == [op |-> "List", backend |-> r.BackendID, done |-> done]
        del == [op |-> "Delete", backend |-> r.BackendID, done |-> done]
    IN IF outcome \in {"skipped", "factory_failed"} THEN <<>>
       ELSE IF outcome = "list_failed" THEN <<list>>
       ELSE <<list>> \o Repeat(del, IF n > keepLast THEN n - keepLast ELSE 0)

\* one iteration of applyRetentionPolicy's loop over backendResults.  The
\* local backend's List and Delete do not look at ctx and its List returns
\* no error; the SDK backends fail List on a done ctx.
RunRetention(e, outcome, n) ==
    /\ pc[e] = "retention"
    /\ LET r == backendResults[e][idx[e]]
           local == Backends[r.BackendID].Type = "local"
       IN /\ (outcome = "skipped") <=> (r.Status # "success")
          /\ outcome = "list_failed" => ~local
          /\ outcome = "listed" => (~ctxDone(e) \/ local)
          /\ outcome # "listed" => n = 0
          /\ Charge(IF outcome = "factory_failed" \/ (outcome = "list_failed" /\ ~ctxDone(e))
                    THEN 1 ELSE 0)
          /\ calls' = [calls EXCEPT ![e] =
                           @ \o RetentionCalls(r, outcome, n, TaskOf(e).KeepLast, ctxDone(e))]
    /\ IF idx[e] < Len(backendResults[e])
       THEN /\ idx' = [idx EXCEPT ![e] = @ + 1]
            /\ UNCHANGED pc
       ELSE /\ pc' = [pc EXCEPT ![e] = "complete"]
            /\ UNCHANGED idx
    /\ UNCHANGED <<running, cancelledAt, executions, backend_uploads, events, nextID,
                   lastRun, progressed, scope, exec, backendResults, uploadErrors, attempts,
                   updateCalls>>
    /\ UNCHANGED callerVars
    /\ UNCHANGED <<archiveFile, otherVars>>

\* the execution_completed broadcast, return nil, the deferred
\* os.Remove(archivePath) of an archive-mode run, and Execute's deferred
\* delete(e.running, taskID)
RunComplete(e) ==
    /\ pc[e] = "complete"
    /\ archiveFile' = [archiveFile EXCEPT ![e] = IF @ = "complete" THEN "removed" ELSE @]
    /\ events' = broadcastEvent(events, e, "execution_completed")
    /\ running' = MapDelete(running, exec[e].TaskID)
    /\ pc' = [pc EXCEPT ![e] = "done"]
    /\ UNCHANGED <<cancelledAt, executions, backend_uploads, nextID, lastRun, faults, scope,
                   progressed, exec, idx, backendResults, uploadErrors, attempts, calls,
                   updateCalls>>
    /\ UNCHANGED callerVars
    /\ UNCHANGED otherVars

\* ---------------------------------------------------------------- Next
SyncStages == {"scan", "list", "file"}

Next ==
    \/ \E c \in Callers, t \in RequestIDs : ExecuteCheck(c, t)
    \/ \E c \in Callers, dbOk \in BOOLEAN : ExecuteCreate(c, dbOk)
    \/ \E c \in Callers : ExecuteTrack(c)
    \/ \E e \in ExecIDs : Cancel(e)
    \/ \E e \in ExecIDs, ok \in BOOLEAN, dbOk \in BOOLEAN : RunStat(e, ok, dbOk)
    \/ \E e \in ExecIDs, k \in 0..MaxProgress, ok \in BOOLEAN, created \in BOOLEAN,
          dbOk \in BOOLEAN : RunBuild(e, k, ok, created, dbOk)
    \/ \E e \in ExecIDs, factoryOk \in BOOLEAN, dbOk \in BOOLEAN :
          RunUploadBegin(e, factoryOk, dbOk)
    \/ \E e \in ExecIDs, k \in 0..MaxProgress, ok \in BOOLEAN, dbOk \in BOOLEAN :
          RunUploadEnd(e, k, ok, dbOk)
    \/ \E e \in ExecIDs, factoryOk \in BOOLEAN, dbOk \in BOOLEAN :
          RunSyncBegin(e, factoryOk, dbOk)
    \/ \E e \in ExecIDs, k \in 0..MaxProgress, stage \in SyncStages, ok \in BOOLEAN,
          dbOk \in BOOLEAN : RunSyncEnd(e, k, stage, ok, dbOk)
    \/ \E e \in ExecIDs, dbOk \in BOOLEAN : RunFinalize(e, dbOk)
    \/ \E e \in ExecIDs, outcome \in RetentionOutcomes, n \in 0..MaxListed :
          RunRetention(e, outcome, n)
    \/ \E e \in ExecIDs : RunComplete(e)

Spec == Init /\ [][Next]_vars

SpecConcurrent == InitConcurrent /\ [][Next]_vars

\* the calls of Execute that return an error, beside one run
NextExecute ==
    \/ \E c \in Callers, t \in RequestIDs : ExecuteRefuse(c, t)
    \/ Next

\* one execution with environment failures, no progress callbacks
InitExecute == InitState([execs |-> 1, faults |-> MaxFaults, progress |-> 0])

SpecExecute == InitExecute /\ [][NextExecute]_vars

\* ------------------------------------------------------------ retention
\* One backend of one successful archive run: the upload of the new archive
\* and the pass of applyRetentionPolicy over that backend.  File names are
\* sequences of characters and of the tokens "_", a timestamp, ".tar", ".gz".

\* archives of the task a backend holds before the run
MaxPreloaded == 2
\* largest keep_last
MaxKeep == 2

\* time.Now().Format("20060102_150405") of successive runs, in time order
Stamps == <<"20060102_150401", "20060102_150402", "20060102_150403", "20060102_150404",
            "20060102_150405", "20060102_150406", "20060102_150407", "20060102_150408">>

\* task names: one that sanitizeFilename leaves alone, one with an upper
\* case letter, one with a space, one with a removed character
TrimNames == {<<"t", "a", "s", "k", "x">>, <<"T", "a", "s", "k", "x">>,
              <<"t", "a", "s", "k", " ", "x">>, <<"t", "a", "s", "k", ":", "x">>}

\* strings.ToLower on the letters of TrimNames
ToLower(c) == IF c = "T" THEN "t" ELSE c

UnsafeChars == {"/", "\\", ":", "*", "?", "\"", "<", ">", "|"}

\* archive.sanitizeFilename
sanitizeFilename(name) ==
    LET hyphened == [i \in DOMAIN name |-> IF name[i] = " " THEN "-" ELSE name[i]]
        IsSafe(c) == c \notin UnsafeChars
        kept == SelectSeq(hyphened, IsSafe)
    IN [i \in DOMAIN kept |-> ToLower(kept[i])]

\* Builder.GenerateFilename with the default pattern {task}_{timestamp}.tar.gz
GenerateFilename(taskName, stamp) == sanitizeFilename(taskName) \o <<"_", stamp, ".tar", ".gz">>

\* filepath.Ext
Ext(fileName) == IF fileName = <<>> THEN "" ELSE fileName[Len(fileName)]

\* the filter of applyRetentionPolicy: the name is longer than
\* task.Name + "_", starts with it, and has the extension .gz
IsBackupOf(taskName, fileName) ==
    LET taskPrefix == taskName \o <<"_">>
    IN /\ Len(fileName) > Len(taskPrefix)
       /\ SubSeq(fileName, 1, Len(taskPrefix)) = taskPrefix
       /\ Ext(fileName) = ".gz"

\* variant of the count that spares one more entry than KeepLast; the trim
\* scenario of C13 must tell it from the code's
ToDeleteCountSparing(n, keepLast) == IF n > keepLast + 1 THEN n - keepLast - 1 ELSE 0

\* toDelete := len(backups) - KeepLast, when len(backups) > KeepLast
ToDeleteCount(n, keepLast) == IF n > keepLast THEN n - keepLast ELSE 0

\* the orders in which a backend's List may return the entries it holds
Listings(S) ==
    {f \in [1..Cardinality(S) -> S] : \A i, j \in 1..Cardinality(S) : i # j => f[i] # f[j]}

\* the archives earlier runs of the task left on the backend, n of them
\* with modification times mtime[i]
Preloaded(taskName, n, mtime) ==
    {[Path |-> GenerateFilename(taskName, Stamps[i]), LastModified |-> mtime[i]] : i \in 1..n}

\* entries on the backend that are no archives of the task: another task's
\* archive and a text file named after the task
Foreign(taskName) ==
    {[Path |-> <<"o", "_", Stamps[1], ".tar", ".gz">>, LastModified |-> 1],
     [Path |-> sanitizeFilename(taskName) \o <<"_", "notes", ".txt">>, LastModified |-> 1]}

TrimStart(task, held) ==
    /\ trimTask = task
    /\ remote = held
    /\ listing = <<>>
    /\ backups = <<>>
    /\ deleted = <<>>
    /\ trimPc = "upload"

InitRetention ==
    /\ ExecutorIdle([execs |-> 0, faults |-> 0, progress |-> 0])
    /\ CfgIdle /\ SyncIdle /\ MoreIdle
    /\ \E name \in TrimNames, keepLast \in 1..MaxKeep, n \in 0..MaxPreloaded :
          \E mtime \in [1..n -> 1..MaxPreloaded], other \in SUBSET Foreign(name) :
             TrimStart([Name |-> name, KeepLast |-> keepLast],
                       Preloaded(name, n, mtime) \cup other)

\* the archive the run builds and uploads: named by GenerateFilename, with
\* the next timestamp, stored under its base name and modified now
NewArchive ==
    LET held == {r \in remote : Ext(r.Path) = ".gz" /\ r.Path[Len(r.Path) - 2] \in
                                     {Stamps[i] : i \in DOMAIN Stamps}}
        latest == IF remote = {} THEN 0
                  ELSE CHOOSE m \in {r.LastModified : r \in remote} :
                           \A r \in remote : r.LastModified <= m
    IN [Path |-> GenerateFilename(trimTask.Name, Stamps[Cardinality(held) + 1]),
        LastModified |-> latest + 1]

\* uploadToBackend succeeded: remotePath is the base name of the archive
TrimUpload ==
    /\ trimPc = "upload"
    /\ remote' = remote \cup {NewArchive}
    /\ trimPc' = "list"
    /\ UNCHANGED <<listing, backups, deleted, trimTask>>
    /\ UNCHANGED <<moreVars, executorVars, cfgVars, syncVars>>

\* backendInstance.List(ctx, "") and the filter on task.Name + "_" and .gz;
\* a List error skips the backend
TrimList(ok) ==
    /\ trimPc = "list"
    /\ IF ok
       THEN /\ \E l \in Listings(remote) :
                  /\ listing' = l
                  /\ backups' = SelectSeq(l, LAMBDA r : IsBackupOf(trimTask.Name, r.Path))
            /\ trimPc' = "delete"
       ELSE /\ trimPc' = "skipped"
            /\ UNCHANGED <<listing, backups>>
    /\ UNCHANGED <<remote, deleted, trimTask>>
    /\ UNCHANGED <<moreVars, executorVars, cfgVars, syncVars>>

\* one iteration of the delete loop: Delete(ctx, backups[i].Path), whose
\* error is only logged
TrimDelete(ok) ==
    /\ trimPc = "delete"
    /\ Len(deleted) < ToDeleteCount(Len(backups), trimTask.KeepLast)
    /\ LET b == backups[Len(deleted) + 1]
       IN /\ deleted' = Append(deleted, b.Path)
          /\ remote' = IF ok THEN remote \ {b} ELSE remote
    /\ UNCHANGED <<listing, backups, trimPc, trimTask>>
    /\ UNCHANGED <<moreVars, executorVars, cfgVars, syncVars>>

NextRetention ==
    \/ TrimUpload
    \/ \E ok \in BOOLEAN : TrimList(ok)
    \/ \E ok \in BOOLEAN : TrimDelete(ok)

SpecRetention == InitRetention /\ [][NextRetention]_vars

\* the trim scenario: a backend holding six archives of task taskx, oldest
\* first by name and by modification time, and keep_last = 3
InitTrim ==
    /\ ExecutorIdle([execs |-> 0, faults |-> 0, progress |-> 0])
    /\ CfgIdle /\ SyncIdle /\ MoreIdle
    /\ TrimStart([Name |-> <<"t", "a", "s", "k", "x">>, KeepLast |-> 3],
                 Preloaded(<<"t", "a", "s", "k", "x">>, 6, [i \in 1..6 |-> i]))

SpecTrim == InitTrim /\ [][NextRetention]_vars

\* tasks that upload to one backend: db, db_prod, whose name starts with
\* "db_", and web
SharedNames == {<<"d", "b">>, <<"d", "b", "_", "p", "r", "o", "d">>, <<"w", "e", "b">>}

\* a run of one of the tasks on a backend that holds archives of earlier
\* runs of it and of the other tasks
InitShared ==
    /\ ExecutorIdle([execs |-> 0, faults |-> 0, progress |-> 0])
    /\ CfgIdle /\ SyncIdle /\ MoreIdle
    /\ \E name \in SharedNames, keepLast \in 1..MaxKeep, n \in 0..MaxPreloaded :
          \E others \in SUBSET UNION {Preloaded(o, 1, [i \in 1..1 |-> 1]) :
                                         o \in SharedNames \ {name}} :
             TrimStart([Name |-> name, KeepLast |-> keepLast],
                       Preloaded(name, n, [i \in 1..n |-> i]) \cup others)

SpecShared == InitShared /\ [][NextRetention]_vars

\* ---------------------------------------------------------------- config store
\* package config: Manager, the document it holds and the file it saves to

\* saveInternal fails at most this many times in one behaviour of
\* SpecConfigFaults
MaxSaveFaults == 1

\* values uuid.New().String() may return; the duplicate check of AddBackend
\* and AddTask comes after the ID is generated
Uuids == {"u1"}

\* Backend.Config of the backends passed in: one sensitive key
SecretConfig == [secret_access_key |-> <<"h", "u", "n", "t", "e", "r", "2">>]

\* the backends callers pass to AddBackend and UpdateBackend: with an ID,
\* without one, and without name and type
BackendInputs ==
    {[ID |-> "b1", Name |-> "nas", Type |-> "local", Config |-> SecretConfig],
     [ID |-> "", Name |-> "nas", Type |-> "local", Config |-> SecretConfig],
     [ID |-> "", Name |-> "", Type |-> "", Config |-> SecretConfig]}

\* the tasks callers pass to AddTask and UpdateTask: with an ID and one
\* backend, without an ID and with the same backend twice, with nothing
\* filled in, and with a backend that is not in the document
TaskInputs ==
    {[ID |-> "t1", Name |-> "job", SourcePath |-> "/src", BackendIDs |-> <<"b1">>, LastRun |-> 0],
     [ID |-> "", Name |-> "job", SourcePath |-> "/src", BackendIDs |-> <<"b1", "b1">>, LastRun |-> 0],
     [ID |-> "", Name |-> "", SourcePath |-> "", BackendIDs |-> <<>>, LastRun |-> 0],
     [ID |-> "t1", Name |-> "job", SourcePath |-> "/src", BackendIDs |-> <<"b1", "b9">>, LastRun |-> 0]}

\* IDs callers pass to Update, Delete and UpdateTaskSchedule
BackendIDArgs == {"b1", "b9"} \cup Uuids

TaskIDArgs == {"t1", "t9"} \cup Uuids

SettingsInputs == {"default", "custom"}

HasBackend(doc, id) == \E i \in DOMAIN doc.Backends : doc.Backends[i].ID = id

HasTask(doc, id) == \E i \in DOMAIN doc.Tasks : doc.Tasks[i].ID = id

\* the index the loop `for i := range ...` stops at: the first entry with the ID
FirstIndex(s, id) == CHOOSE i \in DOMAIN s : s[i].ID = id /\ \A j \in 1..(i - 1) : s[j].ID # id

\* append(s[:i], s[i+1:]...)
RemoveAt(s, i) == SubSeq(s, 1, i - 1) \o SubSeq(s, i + 1, Len(s))

\* the loop "Validate backends exist" of AddTask and UpdateTask
BackendsExist(doc, task) ==
    \A j \in DOMAIN task.BackendIDs : HasBackend(doc, task.BackendIDs[j])

\* the loop "Check if backend is used by any task" of DeleteBackend
InUse(doc, id) ==
    \E i \in DOMAIN doc.Tasks : \E j \in DOMAIN doc.Tasks[i].BackendIDs :
        doc.Tasks[i].BackendIDs[j] = id

\* Manager.validate, called by Load
validate(doc) ==
    /\ doc.Version # ""
    /\ \A i \in DOMAIN doc.Backends :
          /\ doc.Backends[i].ID # ""
          /\ \A j \in 1..(i - 1) : doc.Backends[j].ID # doc.Backends[i].ID
          /\ doc.Backends[i].Type # ""
          /\ doc.Backends[i].Name # ""
    /\ \A i \in DOMAIN doc.Tasks :
          /\ doc.Tasks[i].ID # ""
          /\ \A j \in 1..(i - 1) : doc.Tasks[j].ID # doc.Tasks[i].ID
          /\ doc.Tasks[i].Name # ""
          /\ doc.Tasks[i].SourcePath # ""
          /\ Len(doc.Tasks[i].BackendIDs) > 0
          /\ \A j \in DOMAIN doc.Tasks[i].BackendIDs :
                HasBackend(doc, doc.Tasks[i].BackendIDs[j])

\* a mutation that changed m.config to doc and returns m.saveInternal():
\* the file is replaced when the save succeeds and left as it was when
\* writing or renaming the temp file fails; m.config stays changed either way.
\* A slice of m.config may have moved, so a value read earlier is no longer
\* followed.
Persist(doc, op, saveOk) ==
    /\ config' = doc
    /\ handle' = NoHandle
    /\ IF saveOk
       THEN /\ disk' = doc
            /\ lastCall' = "ok"
            /\ UNCHANGED saveFaults
       ELSE /\ saveFaults < scope.saves
            /\ saveFaults' = saveFaults + 1
            /\ lastCall' = "save_failed"
            /\ UNCHANGED disk

\* a mutation that returns an error before it changes anything
Reject(op, why) ==
    /\ lastCall' = why
    /\ UNCHANGED <<config, disk, saveFaults, handle>>

\* the ID AddBackend and AddTask give the new entry
AssignedID(x, uuid) == IF x.ID = "" THEN uuid ELSE x.ID

AddBackendUnchecked(backend, uuid, saveOk) ==
    /\ Persist([config EXCEPT !.Backends = Append(@, [backend EXCEPT !.ID = AssignedID(backend, uuid)])],
               "AddBackend", saveOk)
    /\ UNCHANGED <<moreVars, executorVars, trimVars, syncVars>>

\* Manager.AddBackend
AddBackend(backend, uuid, saveOk) ==
    /\ IF HasBackend(config, AssignedID(backend, uuid))
       THEN Reject("AddBackend", "duplicate")
       ELSE Persist([config EXCEPT !.Backends =
                        Append(@, [backend EXCEPT !.ID = AssignedID(backend, uuid)])],
                    "AddBackend", saveOk)
    /\ UNCHANGED <<moreVars, executorVars, trimVars, syncVars>>

\* Manager.UpdateBackend: the entry keeps its ID
UpdateBackend(id, backend, saveOk) ==
    /\ IF HasBackend(config, id)
       THEN Persist([config EXCEPT !.Backends[FirstIndex(config.Backends, id)] =
                        [backend EXCEPT !.ID = id]],
                    "UpdateBackend", saveOk)
       ELSE Reject("UpdateBackend", "not_found")
    /\ UNCHANGED <<moreVars, executorVars, trimVars, syncVars>>

DeleteBackendUnchecked(id, saveOk) ==
    /\ IF HasBackend(config, id)
       THEN Persist([config EXCEPT !.Backends = RemoveAt(@, FirstIndex(config.Backends, id))],
                    "DeleteBackend", saveOk)
       ELSE Reject("DeleteBackend", "not_found")
    /\ UNCHANGED <<moreVars, executorVars, trimVars, syncVars>>

\* Manager.DeleteBackend
DeleteBackend(id, saveOk) ==
    /\ IF InUse(config, id)
       THEN Reject("DeleteBackend", "in_use")
       ELSE IF HasBackend(config, id)
       THEN Persist([config EXCEPT !.Backends = RemoveAt(@, FirstIndex(config.Backends, id))],
                    "DeleteBackend", saveOk)
       ELSE Reject("DeleteBackend", "not_found")
    /\ UNCHANGED <<moreVars, executorVars, trimVars, syncVars>>

\* Manager.AddTask
AddTask(task, uuid, saveOk) ==
    /\ IF HasTask(config, AssignedID(task, uuid))
       THEN Reject("AddTask", "duplicate")
       ELSE IF ~BackendsExist(config, task)
       THEN Reject("AddTask", "backend_not_found")
       ELSE Persist([config EXCEPT !.Tasks =
                        Append(@, [task EXCEPT !.ID = AssignedID(task, uuid)])],
                    "AddTask", saveOk)
    /\ UNCHANGED <<moreVars, executorVars, trimVars, syncVars>>

\* Manager.UpdateTask: the entry keeps its ID; LastRun is whatever the
\* caller's task carries
UpdateTask(id, task, saveOk) ==
    /\ IF ~HasTask(config, id)
       THEN Reject("UpdateTask", "not_found")
       ELSE IF ~BackendsExist(config, task)
       THEN Reject("UpdateTask", "backend_not_found")
       ELSE Persist([config EXCEPT !.Tasks[FirstIndex(config.Tasks, id)] =
                        [task EXCEPT !.ID = id]],
                    "UpdateTask", saveOk)
    /\ UNCHANGED <<moreVars, executorVars, trimVars, syncVars>>

\* Manager.DeleteTask
DeleteTask(id, saveOk) ==
    /\ IF HasTask(config, id)
       THEN Persist([config EXCEPT !.Tasks = RemoveAt(@, FirstIndex(config.Tasks, id))],
                    "DeleteTask", saveOk)
       ELSE Reject("DeleteTask", "not_found")
    /\ UNCHANGED <<moreVars, executorVars, trimVars, syncVars>>

\* Manager.UpdateSettings
UpdateSettings(settings, saveOk) ==
    /\ Persist([config EXCEPT !.Settings = settings], "UpdateSettings", saveOk)
    /\ UNCHANGED <<moreVars, executorVars, trimVars, syncVars>>

\* Manager.UpdateTaskSchedule: sets LastRun (and NextRun) of the task
UpdateTaskSchedule(id, saveOk) ==
    /\ IF HasTask(config, id)
       THEN Persist([config EXCEPT !.Tasks[FirstIndex(config.Tasks, id)].LastRun = 1],
                    "UpdateTaskSchedule", saveOk)
       ELSE Reject("UpdateTaskSchedule", "not_found")
    /\ UNCHANGED <<moreVars, executorVars, trimVars, syncVars>>

\* the mutations of the config store; each holds m.mu from start to end, so
\* calls made concurrently take effect one after the other
NextConfig ==
    \/ \E b \in BackendInputs, u \in Uuids, saveOk \in BOOLEAN : AddBackend(b, u, saveOk)
    \/ \E id \in BackendIDArgs, b \in BackendInputs, saveOk \in BOOLEAN : UpdateBackend(id, b, saveOk)
    \/ \E id \in BackendIDArgs, saveOk \in BOOLEAN : DeleteBackend(id, saveOk)
    \/ \E t \in TaskInputs, u \in Uuids, saveOk \in BOOLEAN : AddTask(t, u, saveOk)
    \/ \E id \in TaskIDArgs, t \in TaskInputs, saveOk \in BOOLEAN : UpdateTask(id, t, saveOk)
    \/ \E id \in TaskIDArgs, saveOk \in BOOLEAN : DeleteTask(id, saveOk)
    \/ \E s \in SettingsInputs, saveOk \in BOOLEAN : UpdateSettings(s, saveOk)
    \/ \E id \in TaskIDArgs, saveOk \in BOOLEAN : UpdateTaskSchedule(id, saveOk)

\* a store created by CreateDefault, in an environment where saveInternal
\* fails at most saves times
InitStore(saves) ==
    /\ ExecutorIdle([execs |-> 0, faults |-> 0, progress |-> 0, saves |-> saves])
    /\ TrimIdle /\ CfgIdle /\ SyncIdle /\ MoreIdle

\* every save succeeds
InitConfig == InitStore(0)

SpecConfig == InitConfig /\ [][NextConfig]_vars

\* saves may fail
InitConfigFaults == InitStore(MaxSaveFaults)

SpecConfigFaults == InitConfigFaults /\ [][NextConfig]_vars

\* ---------------------------------------------------------------- config store: reads
\* the keys maskSensitiveFields masks (those the documents here use)
SensitiveKeys == {"secret_access_key"}

Stars == <<"*", "*", "*">>

\* maskSensitiveFields (api/backends.go): a new map, sensitive values cut to
\* their first three characters and "***"
maskSensitiveFields(cfg) ==
    [k \in DOMAIN cfg |->
        IF k \in SensitiveKeys
        THEN IF Len(cfg[k]) > 4 THEN SubSeq(cfg[k], 1, 3) \o Stars
             ELSE IF Len(cfg[k]) > 0 THEN Stars
             ELSE <<>>
        ELSE cfg[k]]

\* documents that pass validate, as Load accepts them
LoadedDocs ==
    LET B(id) == [ID |-> id, Name |-> "nas", Type |-> "local", Config |-> SecretConfig]
        T(id, bs) == [ID |-> id, Name |-> "job", SourcePath |-> "/src", BackendIDs |-> bs,
                      LastRun |-> 0]
    IN {[Version |-> ConfigVersion, Settings |-> "default",
         Backends |-> <<B("b1"), B("b2")>>, Tasks |-> <<T("t1", <<"b1", "b2">>)>>],
        [Version |-> ConfigVersion, Settings |-> "default",
         Backends |-> <<B("b1")>>, Tasks |-> <<T("t1", <<"b1">>), T("t2", <<"b1">>)>>]}

\* Manager.Get, GetBackends, GetTasks: the caller now holds the returned value
ReadAll(op) ==
    /\ op \in {"Get", "GetBackends", "GetTasks"}
    /\ handle' = [op |-> op, id |-> ""]
    /\ lastCall' = "ok"
    /\ UNCHANGED <<config, disk, saveFaults>>
    /\ UNCHANGED <<moreVars, executorVars, trimVars, syncVars>>

\* Manager.GetBackend, GetTask: the entry with the ID, or an error
ReadOne(op, id) ==
    /\ op \in {"GetBackend", "GetTask"}
    /\ IF (op = "GetBackend" /\ HasBackend(config, id)) \/ (op = "GetTask" /\ HasTask(config, id))
       THEN /\ handle' = [op |-> op, id |-> id]
            /\ lastCall' = "ok"
       ELSE /\ lastCall' = "not_found"
            /\ UNCHANGED handle
    /\ UNCHANGED <<config, disk, saveFaults>>
    /\ UNCHANGED <<moreVars, executorVars, trimVars, syncVars>>

\* the places of a returned value a caller can assign to: Settings of the
\* Config; of a backend or a task, the field Name, a key of the map Config,
\* an element of the slice BackendIDs
Places(h, doc) ==
    LET backendAt(i) == {[target |-> "backend", i |-> i, field |-> f, j |-> 0] :
                            f \in {"Name", "Config[k]"}}
        taskAt(i) == {[target |-> "task", i |-> i, field |-> "Name", j |-> 0]}
                     \cup {[target |-> "task", i |-> i, field |-> "BackendIDs[j]", j |-> j] :
                             j \in DOMAIN doc.Tasks[i].BackendIDs}
        allBackends == UNION {backendAt(i) : i \in DOMAIN doc.Backends}
        allTasks == UNION {taskAt(i) : i \in DOMAIN doc.Tasks}
    IN CASE h.op = "Get" ->
               {[target |-> "settings", i |-> 0, field |-> "Settings", j |-> 0]}
                   \cup allBackends \cup allTasks
         [] h.op = "GetBackends" -> allBackends
         [] h.op = "GetTasks" -> allTasks
         [] h.op = "GetBackend" -> backendAt(FirstIndex(doc.Backends, h.id))
         [] h.op = "GetTask" -> taskAt(FirstIndex(doc.Tasks, h.id))
         [] OTHER -> {}

\* whether the place is memory of m.config. Get copies the Config struct, so
\* Settings is its own and the slices Backends and Tasks share their arrays
\* with m.config; GetBackend and GetTask copy one struct, GetBackends and
\* GetTasks copy the structs into a new slice; a copied struct still refers
\* to the same Config map and the same BackendIDs array.
SharedWithStore(h, place) ==
    CASE place.field = "Settings" -> FALSE
      [] place.field = "Name" -> h.op = "Get"
      [] place.field = "Config[k]" -> TRUE
      [] place.field = "BackendIDs[j]" -> TRUE

\* the document after the assignment is made in it
Assign(doc, place) ==
    CASE place.field = "Settings" -> [doc EXCEPT !.Settings = "custom"]
      [] place.target = "backend" /\ place.field = "Name" ->
            [doc EXCEPT !.Backends[place.i].Name = "renamed"]
      [] place.target = "task" /\ place.field = "Name" ->
            [doc EXCEPT !.Tasks[place.i].Name = "renamed"]
      [] place.field = "Config[k]" ->
            [doc EXCEPT !.Backends[place.i].Config.secret_access_key = Stars]
      [] place.field = "BackendIDs[j]" ->
            [doc EXCEPT !.Tasks[place.i].BackendIDs[place.j] = "b9"]

\* a caller assigns to a place of the value it holds
CallerWrite(place) ==
    /\ place \in Places(handle, config)
    /\ config' = IF SharedWithStore(handle, place) THEN Assign(config, place) ELSE config
    /\ UNCHANGED <<disk, lastCall, saveFaults, handle>>
    /\ UNCHANGED <<moreVars, executorVars, trimVars, syncVars>>

\* Server.getConfig (api/misc.go): Get, then for every i
\* config.Backends[i].Config = maskSensitiveFields(config.Backends[i].Config)
getConfig ==
    /\ handle' = [op |-> "Get", id |-> ""]
    /\ lastCall' = "ok"
    /\ config' = [config EXCEPT !.Backends =
                     [i \in DOMAIN @ |-> [@[i] EXCEPT !.Config = maskSensitiveFields(@)]]]
    /\ UNCHANGED <<disk, saveFaults>>
    /\ UNCHANGED <<moreVars, executorVars, trimVars, syncVars>>

AllPlaces ==
    {[target |-> "settings", i |-> 0, field |-> "Settings", j |-> 0]}
    \cup {[target |-> t, i |-> i, field |-> f, j |-> j] :
            t \in {"backend", "task"}, i \in 1..2,
            f \in {"Name", "Config[k]", "BackendIDs[j]"}, j \in 0..2}

NextConfigReads ==
    \/ \E op \in {"Get", "GetBackends", "GetTasks"} : ReadAll(op)
    \/ \E op \in {"GetBackend", "GetTask"}, id \in BackendIDArgs \cup TaskIDArgs \cup {"b2", "t2"} :
          ReadOne(op, id)
    \/ \E place \in AllPlaces : CallerWrite(place)
    \/ getConfig

\* a store that loaded a document
InitConfigReads ==
    /\ ExecutorIdle([execs |-> 0, faults |-> 0, progress |-> 0, saves |-> 0])
    /\ TrimIdle /\ SyncIdle /\ MoreIdle
    /\ \E doc \in LoadedDocs : CfgLoaded(doc)

SpecConfigReads == InitConfigReads /\ [][NextConfigReads]_vars

\* ---------------------------------------------------------------- sync
\* package sync: Syncer.Sync and Syncer.DryRun. Paths are sequences of
\* characters.

\* source-relative paths of the files in the source directory
LocalPaths == {<<"x">>, <<"y">>}

\* the Syncer's RemotePath: the task name
RemotePaths == {<<"d">>}

\* paths of the files a backend may hold: in the directory of the task, next
\* to it, and elsewhere
BackendPaths ==
    {<<"d", "/", "x">>, <<"d", "/", "z">>, <<"d", "_", "x">>, <<"e", "/", "x">>}

FileSizes == {1, 2}

\* modification times of local files, in seconds
LocalTimes == {5}

\* BackupInfo.LastModified: an RFC3339 time, in seconds, or a string that
\* time.Parse rejects
RemoteTimes ==
    {[ok |-> TRUE, sec |-> 3], [ok |-> TRUE, sec |-> 4], [ok |-> TRUE, sec |-> 5],
     [ok |-> FALSE, sec |-> 0]}

\* matchesPrefix (backend/local.go), the Prefix of S3's ListObjectsV2
matchesPrefix(path, prefix) ==
    Len(path) >= Len(prefix) /\ SubSeq(path, 1, Len(prefix)) = prefix

\* filepath.Join(s.RemotePath, localFile.RelativePath), with forward slashes
JoinPath(dir, rel) == IF dir = <<>> THEN rel ELSE dir \o <<"/">> \o rel

\* the key of a listed path in remoteFileMap
RelKey(remotePath, path) ==
    IF remotePath # <<>> /\ Len(path) > Len(remotePath) + 1
    THEN SubSeq(path, Len(remotePath) + 2, Len(path))
    ELSE path

\* remoteFileMap: built in the order of the listing, a later entry
\* replacing an earlier one with the same key
remoteFileMap(remotePath, listed) ==
    LET keys == {RelKey(remotePath, listed[i].Path) : i \in DOMAIN listed}
        last(k) == CHOOSE i \in DOMAIN listed :
                      /\ RelKey(remotePath, listed[i].Path) = k
                      /\ \A j \in DOMAIN listed :
                            RelKey(remotePath, listed[j].Path) = k => j <= i
    IN [k \in keys |-> listed[last(k)]]

\* Syncer.needsUpload
needsUpload(local, remoteFile) ==
    IF local.Size # remoteFile.Size THEN TRUE
    ELSE IF ~remoteFile.LastModified.ok THEN FALSE
    ELSE local.ModTime > remoteFile.LastModified.sec + 1

\* Syncer.getUploadReason
getUploadReason(local, remoteFile) ==
    IF local.Size # remoteFile.Size THEN "Size changed" ELSE "Modified timestamp newer"

\* the Reason DryRun gives a local file
ReasonFor(f, map) ==
    IF f.RelativePath \notin DOMAIN map THEN "New file"
    ELSE IF needsUpload(f, map[f.RelativePath]) THEN getUploadReason(f, map[f.RelativePath])
    ELSE "Unchanged"

\* the loop over localFiles and the deletion step, as Sync and DryRun both
\* write them: a local file is uploaded when the map has no entry under its
\* relative path or needsUpload says so, and skipped otherwise; its key is
\* removed from the map, and what is left in the map is deleted when
\* DeleteRemote is set
Classify(op, locals, listed, s) ==
    LET map == remoteFileMap(s.RemotePath, listed)
        uploads == {f \in locals : f.RelativePath \notin DOMAIN map
                                      \/ needsUpload(f, map[f.RelativePath])}
        left == DOMAIN map \ {f.RelativePath : f \in locals}
    IN [op |-> op,
        FilesToUpload |-> {f.RelativePath : f \in uploads},
        FilesToSkip |-> {f.RelativePath : f \in locals \ uploads},
        FilesToDelete |-> IF s.DeleteRemote THEN {map[k].Path : k \in left} ELSE {},
        Reason |-> [p \in {f.RelativePath : f \in locals} |->
                      ReasonFor(CHOOSE f \in locals : f.RelativePath = p, map)]]

\* Syncer.DryRun: no call but List is made on the backend
DryRun ==
    /\ syncPc = "ready"
    /\ details' = Classify("DryRun", localFiles, remoteFiles, syncer)
    /\ syncPc' = "planned"
    /\ UNCHANGED <<localFiles, remoteFiles, syncer, syncTodo, syncMap, syncResult, syncCalls,
                   backendResult>>
    /\ UNCHANGED <<moreVars, executorVars, trimVars, cfgVars>>

\* per-file failures of Upload and Delete in one Sync
MaxSyncFaults == 1

\* filepath.Walk visits the source directory in lexical order
ScanOrder == <<<<"x">>, <<"y">>>>

\* the local file the loop of Sync takes next
NextLocal(todo) ==
    CHOOSE f \in todo :
        \A g \in todo : \E i, j \in DOMAIN ScanOrder :
            /\ ScanOrder[i] = f.RelativePath /\ ScanOrder[j] = g.RelativePath /\ i <= j

\* the BackendResult syncToBackend returns after Syncer.Sync
FailedSync == [Status |-> "failed", Size |-> 0]

SyncedResult(result) ==
    IF Len(result.Errors) > 0 THEN FailedSync
    ELSE [Status |-> "success", Size |-> result.BytesUploaded]

\* Syncer.Sync, steps 1 and 2: scan the source, list the remote, build
\* remoteFileMap; an error of either makes Sync return it, and syncToBackend
\* a failed result
SyncBegin(scanOk, listOk) ==
    /\ syncPc \in {"ready", "planned"}
    /\ IF scanOk /\ listOk
       THEN /\ syncPc' = "syncing"
            /\ syncTodo' = localFiles
            /\ syncMap' = remoteFileMap(syncer.RemotePath, remoteFiles)
            /\ UNCHANGED backendResult
       ELSE /\ syncPc' = "returned"
            /\ backendResult' = FailedSync
            /\ UNCHANGED <<syncTodo, syncMap>>
    /\ UNCHANGED <<localFiles, remoteFiles, syncer, details, syncResult, syncCalls>>
    /\ UNCHANGED <<moreVars, executorVars, trimVars, cfgVars>>

SyncFileStopsOnError(ok) ==
    /\ syncPc = "syncing"
    /\ syncTodo # {}
    /\ LET f == NextLocal(syncTodo)
           rel == f.RelativePath
           up == rel \notin DOMAIN syncMap \/ needsUpload(f, syncMap[rel])
       IN /\ IF up
             THEN /\ syncCalls' = Append(syncCalls,
                        [op |-> "Upload", path |-> JoinPath(syncer.RemotePath, rel), rel |-> rel])
                  /\ IF ok
                     THEN syncResult' = [syncResult EXCEPT !.FilesUploaded = @ + 1,
                                                           !.BytesUploaded = @ + f.Size]
                     ELSE /\ Len(syncResult.Errors) < MaxSyncFaults
                          /\ syncResult' = [syncResult EXCEPT !.Errors = Append(@, rel)]
             ELSE /\ ok
                  /\ syncResult' = [syncResult EXCEPT !.FilesSkipped = @ + 1,
                                                      !.Skipped = @ \cup {rel}]
                  /\ UNCHANGED syncCalls
          /\ syncMap' = [k \in DOMAIN syncMap \ {rel} |-> syncMap[k]]
          /\ syncTodo' = IF up /\ ~ok THEN {} ELSE syncTodo \ {f}
    /\ UNCHANGED <<localFiles, remoteFiles, syncer, details, syncPc, backendResult>>
    /\ UNCHANGED <<moreVars, executorVars, trimVars, cfgVars>>

\* Syncer.Sync, step 3, one iteration: the next local file is uploaded or
\* skipped; an error of Upload is appended to result.Errors; the file's key
\* is removed from the map
SyncFile(ok) ==
    /\ syncPc = "syncing"
    /\ syncTodo # {}
    /\ LET f == NextLocal(syncTodo)
           rel == f.RelativePath
           up == rel \notin DOMAIN syncMap \/ needsUpload(f, syncMap[rel])
       IN /\ IF up
             THEN /\ syncCalls' = Append(syncCalls,
                        [op |-> "Upload", path |-> JoinPath(syncer.RemotePath, rel), rel |-> rel])
                  /\ IF ok
                     THEN syncResult' = [syncResult EXCEPT !.FilesUploaded = @ + 1,
                                                           !.BytesUploaded = @ + f.Size]
                     ELSE /\ Len(syncResult.Errors) < MaxSyncFaults
                          /\ syncResult' = [syncResult EXCEPT !.Errors = Append(@, rel)]
             ELSE /\ ok
                  /\ syncResult' = [syncResult EXCEPT !.FilesSkipped = @ + 1,
                                                      !.Skipped = @ \cup {rel}]
                  /\ UNCHANGED syncCalls
          /\ syncMap' = [k \in DOMAIN syncMap \ {rel} |-> syncMap[k]]
          /\ syncTodo' = syncTodo \ {f}
    /\ UNCHANGED <<localFiles, remoteFiles, syncer, details, syncPc, backendResult>>
    /\ UNCHANGED <<moreVars, executorVars, trimVars, cfgVars>>

\* Syncer.Sync, step 4, one iteration over what is left in the map, in the
\* map's order: Delete is called, its error appended to result.Errors
SyncDelete(k, ok) ==
    /\ syncPc = "syncing"
    /\ syncTodo = {}
    /\ syncer.DeleteRemote
    /\ k \in DOMAIN syncMap
    /\ syncCalls' = Append(syncCalls, [op |-> "Delete", path |-> syncMap[k].Path, rel |-> k])
    /\ IF ok
       THEN syncResult' = [syncResult EXCEPT !.FilesDeleted = @ + 1]
       ELSE /\ Len(syncResult.Errors) < MaxSyncFaults
            /\ syncResult' = [syncResult EXCEPT !.Errors = Append(@, syncMap[k].Path)]
    /\ syncMap' = [j \in DOMAIN syncMap \ {k} |-> syncMap[j]]
    /\ UNCHANGED <<localFiles, remoteFiles, syncer, details, syncPc, syncTodo, backendResult>>
    /\ UNCHANGED <<moreVars, executorVars, trimVars, cfgVars>>

\* what Sync did, as a classification
Done(result, made) ==
    [op |-> "Sync",
     FilesToUpload |-> {made[i].rel : i \in {j \in DOMAIN made : made[j].op = "Upload"}},
     FilesToSkip |-> result.Skipped,
     FilesToDelete |-> {made[i].path : i \in {j \in DOMAIN made : made[j].op = "Delete"}},
     Reason |-> <<>>]

SyncEndEarly ==
    /\ syncPc = "syncing"
    /\ syncTodo = {}
    /\ syncPc' = "returned"
    /\ details' = Done(syncResult, syncCalls)
    /\ backendResult' = SyncedResult(syncResult)
    /\ UNCHANGED <<localFiles, remoteFiles, syncer, syncTodo, syncMap, syncResult, syncCalls>>
    /\ UNCHANGED <<moreVars, executorVars, trimVars, cfgVars>>

\* Syncer.Sync returns its result, and syncToBackend the BackendResult:
\* failed when result.Errors is not empty
SyncEnd ==
    /\ syncPc = "syncing"
    /\ syncTodo = {}
    /\ ~syncer.DeleteRemote \/ DOMAIN syncMap = {}
    /\ syncPc' = "returned"
    /\ details' = Done(syncResult, syncCalls)
    /\ backendResult' = SyncedResult(syncResult)
    /\ UNCHANGED <<localFiles, remoteFiles, syncer, syncTodo, syncMap, syncResult, syncCalls>>
    /\ UNCHANGED <<moreVars, executorVars, trimVars, cfgVars>>

\* the keys remoteFileMap can have
RemoteKeys == {RelKey(rp, p) : rp \in RemotePaths, p \in BackendPaths}

\* Syncer.Sync
Sync ==
    \/ \E scanOk, listOk \in BOOLEAN : SyncBegin(scanOk, listOk)
    \/ \E ok \in BOOLEAN : SyncFile(ok)
    \/ \E k \in RemoteKeys, ok \in BOOLEAN : SyncDelete(k, ok)
    \/ SyncEnd

NextSync == DryRun \/ Sync

\* a Syncer over a source directory and a backend: the local files scanned
\* and the entries List(ctx, RemotePath) returns, in any order
InitSync ==
    /\ ExecutorIdle([execs |-> 0, faults |-> 0, progress |-> 0, saves |-> 0])
    /\ TrimIdle /\ CfgIdle /\ MoreIdle
    /\ details = NoDetails
    /\ syncPc = "ready"
    /\ syncTodo = {}
    /\ syncMap = <<>>
    /\ syncResult = NoResult
    /\ syncCalls = <<>>
    /\ backendResult = [Status |-> "", Size |-> 0]
    /\ \E rp \in RemotePaths, del \in BOOLEAN :
          syncer = [RemotePath |-> rp, DeleteRemote |-> del]
    /\ \E lp \in SUBSET LocalPaths :
          \E attr \in [lp -> FileSizes \X LocalTimes] :
             localFiles = {[RelativePath |-> p, Size |-> attr[p][1], ModTime |-> attr[p][2]] : p \in lp}
    /\ \E held \in SUBSET {p \in BackendPaths : matchesPrefix(p, syncer.RemotePath)} :
          \E attr \in [held -> RemoteTimes] :
             remoteFiles \in Listings({[Path |-> p, Size |-> 1, LastModified |-> attr[p]] : p \in held})

SpecSync == InitSync /\ [][NextSync]_vars

\* ------------------------------------------------------------- sync run
\* runSyncExecution: one syncToBackend per backend of the task, the sizes
\* added up into the execution's ArchiveSize

\* the files of the source directory of a sync run
RunFiles == {[RelativePath |-> <<"x">>, Size |-> 1], [RelativePath |-> <<"y">>, Size |-> 2]}

RECURSIVE SumSize(_)
SumSize(files) ==
    IF files = {} THEN 0
    ELSE LET f == CHOOSE f \in files : TRUE IN f.Size + SumSize(files \ {f})

\* the SyncResult Sync returns when Upload accepted the files in ok and
\* refused the files in bad
SyncResultOf(ok, bad) ==
    [NoResult EXCEPT !.FilesUploaded = Cardinality(ok),
                     !.BytesUploaded = SumSize(ok),
                     !.FilesSkipped = Cardinality(RunFiles \ (ok \cup bad)),
                     !.Skipped = {f.RelativePath : f \in RunFiles \ (ok \cup bad)},
                     !.Errors = [i \in 1..Cardinality(bad) |-> "failed to upload %s: %w"]]

\* the loop body of runSyncExecution after syncToBackend returned result:
\* a failed result adds to syncErrors, any other adds its Size
AddResult(result) ==
    /\ runResults' = Append(runResults, result)
    /\ IF result.Status = "failed"
       THEN /\ runErrors' = runErrors + 1
            /\ UNCHANGED totalBytesUploaded
       ELSE /\ totalBytesUploaded' = totalBytesUploaded + result.Size
            /\ UNCHANGED runErrors

\* runSyncExecution entered
RunSyncStart ==
    /\ runPc = "off"
    /\ runPc' = "loop"
    /\ UNCHANGED <<runBackends, runResults, runErrors, totalBytesUploaded, sent, runExecution>>
    /\ UNCHANGED outsideSyncRun

\* syncToBackend for the next backend returns before any file is sent:
\* GetBackend or Factory failed, or Sync returned an error (scan or listing)
SyncToBackendFails ==
    /\ runPc = "loop"
    /\ Len(runResults) < Len(runBackends)
    /\ AddResult(FailedSync)
    /\ UNCHANGED <<runBackends, runPc, sent, runExecution>>
    /\ UNCHANGED outsideSyncRun

\* syncToBackend for the next backend: Sync ran its loops, Upload accepted
\* the files in ok and refused the files in bad
SyncToBackendSyncs(ok, bad) ==
    /\ runPc = "loop"
    /\ Len(runResults) < Len(runBackends)
    /\ ok \cap bad = {}
    /\ Cardinality(bad) <= MaxSyncFaults
    /\ sent' = sent + SumSize(ok)
    /\ AddResult(SyncedResult(SyncResultOf(ok, bad)))
    /\ UNCHANGED <<runBackends, runPc, runExecution>>
    /\ UNCHANGED outsideSyncRun

\* after the loop: ArchiveSize and the status roll-up
RunSyncFinish ==
    /\ runPc = "loop"
    /\ Len(runResults) = Len(runBackends)
    /\ runExecution' = [Status |-> RollUpSync([i \in 1..runErrors |-> ""], Len(runBackends)).Status,
                        ArchiveSize |-> totalBytesUploaded]
    /\ runPc' = "done"
    /\ UNCHANGED <<runBackends, runResults, runErrors, totalBytesUploaded, sent>>
    /\ UNCHANGED outsideSyncRun

NextSyncRun ==
    \/ RunSyncStart
    \/ SyncToBackendFails
    \/ \E ok \in SUBSET RunFiles, bad \in SUBSET RunFiles : SyncToBackendSyncs(ok, bad)
    \/ RunSyncFinish

\* a sync run about to start, for the backend lists the tasks have
InitSyncRun ==
    /\ ExecutorIdle([execs |-> 0, faults |-> 0, progress |-> 0, saves |-> 0])
    /\ TrimIdle /\ CfgIdle /\ SyncIdle /\ SchedIdle /\ HistIdle /\ DryIdle /\ LateIdle
    /\ runBackends \in {Tasks[t].BackendIDs : t \in TaskIDs}
    /\ runPc = "off"
    /\ runResults = <<>>
    /\ runErrors = 0
    /\ totalBytesUploaded = 0
    /\ sent = 0
    /\ runExecution = [Status |-> "running", ArchiveSize |-> 0]

SpecSyncRun == InitSyncRun /\ [][NextSyncRun]_vars

\* ------------------------------------------------------------ scheduler
\* Scheduler over the cron driver, and the task handlers of the API that
\* call it

\* task IDs of the scheduler's config store
SchedTaskIDs == {"t1", "t2"}

\* AddFunc calls in one behaviour
MaxEntries == 3

\* callbacks fired in one behaviour
MaxFires == 1

\* failed saves of the config store in one behaviour
MaxStoreFaults == 1

\* models.Schedule values: the four simple types and one the table does not
\* have, cron with an expression, with an empty one and with one the cron
\* parser rejects, manual, and a type the switch does not have
Schedules ==
    {SimpleSchedule(st) : st \in {"hourly", "daily", "weekly", "monthly", "yearly"}}
        \cup {CronSchedule(x) : x \in {"*/5 * * * *", "", "every day"}}
        \cup {ManualSchedule, [Type |-> "interval", SimpleType |-> "", CronExpr |-> ""]}

\* schedules the API's requests carry
ScheduleInputs == {SimpleSchedule("hourly"), ManualSchedule}

\* the 5-field expressions the cron driver's parser accepts, of those above
CronParses(expr) == expr \in {"0 * * * *", "0 2 * * *", "0 2 * * 0", "0 2 1 * *", "*/5 * * * *"}

simpleScheduleToCron(simpleType) ==
    CASE simpleType = "hourly"  -> [expr |-> "0 * * * *", err |-> ""]
      [] simpleType = "daily"   -> [expr |-> "0 2 * * *", err |-> ""]
      [] simpleType = "weekly"  -> [expr |-> "0 2 * * 0", err |-> ""]
      [] simpleType = "monthly" -> [expr |-> "0 2 1 * *", err |-> ""]
      [] OTHER -> [expr |-> "", err |-> "unknown simple schedule type: %s"]

scheduleToCron(schedule) ==
    CASE schedule.Type = "simple" -> simpleScheduleToCron(schedule.SimpleType)
      [] schedule.Type = "cron" ->
            IF schedule.CronExpr = "" THEN [expr |-> "", err |-> "cron expression is empty"]
            ELSE [expr |-> schedule.CronExpr, err |-> ""]
      [] schedule.Type = "manual" -> [expr |-> "", err |-> "manual tasks cannot be scheduled"]
      [] OTHER -> [expr |-> "", err |-> "unknown schedule type: %s"]

\* the test of Start, ScheduleTask, ReloadSchedules and createTask
Schedulable(task) == task.Enabled /\ task.Schedule.Type # "manual"

HasSchedTask(tasks, id) == \E i \in DOMAIN tasks : tasks[i].ID = id

\* Manager.UpdateTaskSchedule(id, nil, &nextRun) on the tasks in memory;
\* the fire time is named by the entry it was read from
SetNextRun(tasks, id, n) ==
    [i \in DOMAIN tasks |-> IF tasks[i].ID = id THEN [tasks[i] EXCEPT !.NextRun = n] ELSE tasks[i]]

\* the scheduler, its cron driver and the tasks of the config store
Sched == [tasks |-> schedTasks, cron |-> cronEntries, entries |-> entries, next |-> nextEntryID]

SetSched(st) ==
    /\ schedTasks' = st.tasks
    /\ cronEntries' = st.cron
    /\ entries' = st.entries
    /\ nextEntryID' = st.next

\* the body of UnscheduleTask
unscheduleTask(st, id) ==
    IF id \in DOMAIN st.entries
    THEN [st EXCEPT !.cron = {e \in @ : e.ID # st.entries[id]},
                    !.entries = MapDelete(@, id)]
    ELSE st

\* cron.AddFunc(cronExpr, callback): the callback passes task.ID to Execute
AddFunc(st, task, expr) ==
    [st EXCEPT !.cron = @ \cup {[ID |-> st.next, Task |-> task.ID, Expr |-> expr]},
               !.next = @ + 1]

\* scheduleTask going on after an error of scheduleToCron or AddFunc
scheduleTaskIgnoringError(st, task) ==
    LET c == scheduleToCron(task.Schedule)
        added == AddFunc(st, task, c.expr)
    IN [st |-> [added EXCEPT !.entries = MapPut(@, task.ID, st.next),
                             !.tasks = SetNextRun(@, task.ID, st.next)],
        err |-> ""]

\* scheduleTask run without interruption
scheduleTask(st, task) ==
    LET c == scheduleToCron(task.Schedule)
    IN IF c.err # "" THEN [st |-> st, err |-> "invalid schedule: %w"]
       ELSE IF ~CronParses(c.expr)
       THEN [st |-> st, err |-> "failed to add task to scheduler: %w"]
       ELSE LET added == AddFunc(st, task, c.expr)
            IN [st |-> [added EXCEPT !.entries = MapPut(@, task.ID, st.next),
                                     !.tasks = SetNextRun(@, task.ID, st.next)],
                err |-> ""]

\* the loop of Start and ReloadSchedules over the tasks GetTasks returned,
\* from position i on; errs counts the tasks scheduleTask refused
RECURSIVE scheduleTasks(_, _, _, _)
scheduleTasks(st, tasks, i, errs) ==
    IF i > Len(tasks) THEN [st |-> st, errs |-> errs]
    ELSE IF Schedulable(tasks[i])
    THEN LET r == scheduleTask(st, tasks[i])
         IN scheduleTasks(r.st, tasks, i + 1, IF r.err # "" THEN errs + 1 ELSE errs)
    ELSE scheduleTasks(st, tasks, i + 1, errs)

\* ScheduleTask run without interruption
scheduleOne(st, id) ==
    IF ~HasSchedTask(st.tasks, id) THEN [st |-> st, err |-> "task not found: %s"]
    ELSE LET task == st.tasks[FirstIndex(st.tasks, id)]
             cleared == unscheduleTask(st, id)
         IN IF Schedulable(task) THEN scheduleTask(cleared, task)
            ELSE [st |-> cleared, err |-> ""]

\* nobody is inside a scheduler operation, and Start has returned
Serving == lastOp.op # "NewScheduler" /\ \A p \in SchedProcs : proc[p].pc = "idle"

Answers(op, id, err) == lastOp' = [op |-> op, id |-> id, err |-> err]

\* Start, called once by main before the API is exposed
Start ==
    /\ lastOp.op = "NewScheduler"
    /\ LET r == scheduleTasks(Sched, schedTasks, 1, 0)
       IN /\ r.st.next <= MaxEntries + 1
          /\ SetSched(r.st)
    /\ Answers("Start", "", "")
    /\ UNCHANGED <<fired, fires, proc, storeFaults>>
    /\ UNCHANGED outsideSched

\* ScheduleTask(taskID), no other operation running
ScheduleTask(id) ==
    /\ Serving
    /\ LET r == scheduleOne(Sched, id)
       IN /\ r.st.next <= MaxEntries + 1
          /\ SetSched(r.st)
          /\ Answers("ScheduleTask", id, r.err)
    /\ UNCHANGED <<fired, fires, proc, storeFaults>>
    /\ UNCHANGED outsideSched

\* Start has returned and a goroutine is free to make a call
Callable == lastOp.op # "NewScheduler" /\ \E p \in SchedProcs : proc[p].pc = "idle"

\* UnscheduleTask(taskID): the whole body runs under the mutex
UnscheduleTask(id) ==
    /\ Callable
    /\ SetSched(unscheduleTask(Sched, id))
    /\ Answers("UnscheduleTask", id, "")
    /\ UNCHANGED <<fired, fires, proc, storeFaults>>
    /\ UNCHANGED outsideSched

\* the first loop of ReloadSchedules, under the mutex
clearEntries(st) ==
    [st EXCEPT !.cron = {e \in @ : \A id \in DOMAIN st.entries : st.entries[id] # e.ID},
               !.entries = <<>>]

\* ReloadSchedules, no other operation running
ReloadSchedules ==
    /\ Serving
    /\ LET r == scheduleTasks(clearEntries(Sched), schedTasks, 1, 0)
       IN /\ r.st.next <= MaxEntries + 1
          /\ SetSched(r.st)
          /\ Answers("ReloadSchedules", "",
                      IF r.errs > 0 THEN "failed to schedule %d task(s)" ELSE "")
    /\ UNCHANGED <<fired, fires, proc, storeFaults>>
    /\ UNCHANGED outsideSched

\* GetNextRun(taskID): the map is read under the mutex
GetNextRun(id) ==
    /\ Callable
    /\ Answers("GetNextRun", id, IF id \in DOMAIN entries THEN "" ELSE "task not scheduled")
    /\ UNCHANGED <<schedTasks, cronEntries, entries, nextEntryID, fired, fires, proc, storeFaults>>
    /\ UNCHANGED outsideSched

\* the cron driver reaches the fire time of entry n and runs its callback
Fire(n) ==
    /\ lastOp.op # "NewScheduler"
    /\ fires < MaxFires
    /\ \E e \in cronEntries :
          /\ e.ID = n
          /\ fired' = e.Task
    /\ fires' = fires + 1
    /\ UNCHANGED <<schedTasks, cronEntries, entries, nextEntryID, lastOp, proc, storeFaults>>
    /\ UNCHANGED outsideSched

\* a mutation of the config store by a handler: the tasks in memory become
\* tasks; a failed save returns the error and leaves them so
Saved(saveOk) ==
    /\ saveOk \/ storeFaults < MaxStoreFaults
    /\ storeFaults' = IF saveOk THEN storeFaults ELSE storeFaults + 1

\* POST /api/v1/tasks
createTask(id, enabled, schedule, saveOk) ==
    /\ Serving
    /\ LET task == SchedTask(id, enabled, schedule)
       IN IF HasSchedTask(schedTasks, id)
          THEN /\ Answers("createTask", id, "INTERNAL_ERROR")
               /\ UNCHANGED <<schedTasks, cronEntries, entries, nextEntryID, storeFaults>>
          ELSE /\ Saved(saveOk)
               /\ LET stored == [Sched EXCEPT !.tasks = Append(@, task)]
                  IN IF ~saveOk
                     THEN /\ SetSched(stored)
                          /\ Answers("createTask", id, "INTERNAL_ERROR")
                     ELSE LET r == IF Schedulable(task) THEN scheduleOne(stored, id)
                                   ELSE [st |-> stored, err |-> ""]
                          IN /\ r.st.next <= MaxEntries + 1
                             /\ SetSched(r.st)
                             /\ Answers("createTask", id, "")
    /\ UNCHANGED <<fired, fires, proc>>
    /\ UNCHANGED outsideSched

\* Manager.UpdateTask on the tasks in memory: the ID is kept, the rest is
\* the caller's
withTask(tasks, id, task) ==
    [i \in DOMAIN tasks |-> IF tasks[i].ID = id THEN [task EXCEPT !.ID = id] ELSE tasks[i]]

\* PUT /api/v1/tasks/{id}
updateTask(id, enabled, schedule, saveOk) ==
    /\ Serving
    /\ IF ~HasSchedTask(schedTasks, id)
       THEN /\ Answers("updateTask", id, "INTERNAL_ERROR")
            /\ UNCHANGED <<schedTasks, cronEntries, entries, nextEntryID, storeFaults>>
       ELSE /\ Saved(saveOk)
            /\ LET stored == [Sched EXCEPT !.tasks = withTask(@, id, SchedTask(id, enabled, schedule))]
               IN IF ~saveOk
                  THEN /\ SetSched(stored)
                       /\ Answers("updateTask", id, "INTERNAL_ERROR")
                  ELSE LET r == scheduleOne(stored, id)
                       IN /\ r.st.next <= MaxEntries + 1
                          /\ SetSched(r.st)
                          /\ Answers("updateTask", id, "")
    /\ UNCHANGED <<fired, fires, proc>>
    /\ UNCHANGED outsideSched

\* POST /api/v1/tasks/{id}/enable
enableTask(id, saveOk) ==
    /\ Serving
    /\ IF ~HasSchedTask(schedTasks, id)
       THEN /\ Answers("enableTask", id, "NOT_FOUND")
            /\ UNCHANGED <<schedTasks, cronEntries, entries, nextEntryID, storeFaults>>
       ELSE /\ Saved(saveOk)
            /\ LET task == [schedTasks[FirstIndex(schedTasks, id)] EXCEPT !.Enabled = TRUE]
                   stored == [Sched EXCEPT !.tasks = withTask(@, id, task)]
               IN IF ~saveOk
                  THEN /\ SetSched(stored)
                       /\ Answers("enableTask", id, "INTERNAL_ERROR")
                  ELSE LET r == IF task.Schedule.Type # "manual" THEN scheduleOne(stored, id)
                                ELSE [st |-> stored, err |-> ""]
                       IN /\ r.st.next <= MaxEntries + 1
                          /\ SetSched(r.st)
                          /\ Answers("enableTask", id, "")
    /\ UNCHANGED <<fired, fires, proc>>
    /\ UNCHANGED outsideSched

\* POST /api/v1/tasks/{id}/disable
disableTask(id, saveOk) ==
    /\ Serving
    /\ IF ~HasSchedTask(schedTasks, id)
       THEN /\ Answers("disableTask", id, "NOT_FOUND")
            /\ UNCHANGED <<schedTasks, cronEntries, entries, nextEntryID, storeFaults>>
       ELSE /\ Saved(saveOk)
            /\ LET task == [schedTasks[FirstIndex(schedTasks, id)] EXCEPT !.Enabled = FALSE]
                   stored == [Sched EXCEPT !.tasks = withTask(@, id, task)]
               IN IF ~saveOk
                  THEN /\ SetSched(stored)
                       /\ Answers("disableTask", id, "INTERNAL_ERROR")
                  ELSE /\ SetSched(unscheduleTask(stored, id))
                       /\ Answers("disableTask", id, "")
    /\ UNCHANGED <<fired, fires, proc>>
    /\ UNCHANGED outsideSched

\* DELETE /api/v1/tasks/{id}; isRunning is what Executor.IsRunning answers
deleteTask(id, isRunning, saveOk) ==
    /\ Serving
    /\ IF isRunning
       THEN /\ Answers("deleteTask", id, "TASK_RUNNING")
            /\ UNCHANGED <<schedTasks, cronEntries, entries, nextEntryID, storeFaults>>
       ELSE LET cleared == unscheduleTask(Sched, id)
            IN IF ~HasSchedTask(schedTasks, id)
               THEN /\ SetSched(cleared)
                    /\ Answers("deleteTask", id, "NOT_FOUND")
                    /\ UNCHANGED storeFaults
               ELSE /\ Saved(saveOk)
                    /\ SetSched([cleared EXCEPT !.tasks = RemoveAt(@, FirstIndex(@, id))])
                    /\ Answers("deleteTask", id, IF saveOk THEN "" ELSE "NOT_FOUND")
    /\ UNCHANGED <<fired, fires, proc>>
    /\ UNCHANGED outsideSched

NextSched ==
    \/ Start
    \/ \E id \in SchedTaskIDs : ScheduleTask(id)
    \/ \E id \in SchedTaskIDs : UnscheduleTask(id)
    \/ ReloadSchedules
    \/ \E id \in SchedTaskIDs : GetNextRun(id)
    \/ \E n \in 1..MaxEntries : Fire(n)
    \/ \E id \in SchedTaskIDs, enabled \in BOOLEAN, schedule \in ScheduleInputs, saveOk \in BOOLEAN :
          createTask(id, enabled, schedule, saveOk)
    \/ \E id \in SchedTaskIDs, enabled \in BOOLEAN, schedule \in ScheduleInputs, saveOk \in BOOLEAN :
          updateTask(id, enabled, schedule, saveOk)
    \/ \E id \in SchedTaskIDs, saveOk \in BOOLEAN : enableTask(id, saveOk)
    \/ \E id \in SchedTaskIDs, saveOk \in BOOLEAN : disableTask(id, saveOk)
    \/ \E id \in SchedTaskIDs, isRunning \in BOOLEAN, saveOk \in BOOLEAN :
          deleteTask(id, isRunning, saveOk)

\* the task lists a config document can hold, over the given schedules
TaskLists(schedules) ==
    {<<>>}
        \cup {<<SchedTask("t1", en, sc)>> : en \in BOOLEAN, sc \in schedules}
        \cup {<<SchedTask("t1", en[1], sc[1]), SchedTask("t2", en[2], sc[2])>> :
                 en \in BOOLEAN \X BOOLEAN, sc \in schedules \X schedules}

InitOutsideSched ==
    /\ ExecutorIdle([execs |-> 0, faults |-> 0, progress |-> 0, saves |-> 0])
    /\ TrimIdle /\ CfgIdle /\ SyncIdle /\ SizeIdle /\ HistIdle /\ DryIdle /\ LateIdle

\* main has constructed the scheduler over a loaded config
InitSched ==
    /\ InitOutsideSched
    /\ NewScheduler
    /\ schedTasks \in TaskLists(ScheduleInputs)

SpecSched == InitSched /\ [][NextSched]_vars

\* --------------------------------------------- scheduler, step by step
\* ScheduleTask and ReloadSchedules as the steps between which another
\* goroutine can run: each step is one critical section of the scheduler's
\* mutex, of the cron driver or of the config store

Goto(p, to) == proc' = [proc EXCEPT ![p].pc = to]

Return(p) == proc' = [proc EXCEPT ![p] = IdleProc]

\* ScheduleTask(taskID) entered: GetTask
CallScheduleTask(p, id) ==
    /\ lastOp.op # "NewScheduler"
    /\ proc[p].pc = "idle"
    /\ IF ~HasSchedTask(schedTasks, id)
       THEN /\ Answers("ScheduleTask", id, "task not found: %s")
            /\ UNCHANGED proc
       ELSE /\ proc' = [proc EXCEPT ![p] = [IdleProc EXCEPT !.pc = "unschedule",
                                                          !.op = "ScheduleTask",
                                                          !.task = schedTasks[FirstIndex(schedTasks, id)]]]
            /\ UNCHANGED lastOp
    /\ UNCHANGED <<schedTasks, cronEntries, entries, nextEntryID, fired, fires, storeFaults>>
    /\ UNCHANGED outsideSched

\* ScheduleTask: s.UnscheduleTask(taskID), then the test of the task read
\* at entry
StepUnschedule(p) ==
    /\ proc[p].pc = "unschedule"
    /\ SetSched(unscheduleTask(Sched, proc[p].task.ID))
    /\ IF Schedulable(proc[p].task)
       THEN Goto(p, "addfunc") /\ UNCHANGED lastOp
       ELSE Return(p) /\ Answers("ScheduleTask", proc[p].task.ID, "")
    /\ UNCHANGED <<fired, fires, storeFaults>>
    /\ UNCHANGED outsideSched

\* where scheduleTask goes when it returns: to the caller of ScheduleTask,
\* or to the loop of ReloadSchedules
Leave(p, err) ==
    IF proc[p].op = "ScheduleTask"
    THEN Return(p) /\ Answers("ScheduleTask", proc[p].task.ID, err)
    ELSE /\ proc' = [proc EXCEPT ![p].pc = "loop",
                                 ![p].errs = IF err # "" THEN @ + 1 ELSE @]
         /\ UNCHANGED lastOp

\* scheduleTask: scheduleToCron and cron.AddFunc
StepAddFunc(p) ==
    /\ proc[p].pc = "addfunc"
    /\ LET c == scheduleToCron(proc[p].task.Schedule)
       IN IF c.err # ""
          THEN /\ Leave(p, "invalid schedule: %w")
               /\ UNCHANGED <<cronEntries, nextEntryID>>
          ELSE IF ~CronParses(c.expr)
          THEN /\ Leave(p, "failed to add task to scheduler: %w")
               /\ UNCHANGED <<cronEntries, nextEntryID>>
          ELSE /\ nextEntryID <= MaxEntries
               /\ cronEntries' = AddFunc(Sched, proc[p].task, c.expr).cron
               /\ nextEntryID' = nextEntryID + 1
               /\ proc' = [proc EXCEPT ![p].pc = "setentry", ![p].entry = nextEntryID]
               /\ UNCHANGED lastOp
    /\ UNCHANGED <<schedTasks, entries, fired, fires, storeFaults>>
    /\ UNCHANGED outsideSched

\* scheduleTask: s.entries[task.ID] = entryID, under the mutex
StepSetEntry(p) ==
    /\ proc[p].pc = "setentry"
    /\ entries' = MapPut(entries, proc[p].task.ID, proc[p].entry)
    /\ Goto(p, "nextrun")
    /\ UNCHANGED <<schedTasks, cronEntries, nextEntryID, fired, fires, lastOp, storeFaults>>
    /\ UNCHANGED outsideSched

\* scheduleTask: UpdateTaskSchedule(task.ID, nil, &nextRun), then return
StepNextRun(p) ==
    /\ proc[p].pc = "nextrun"
    /\ schedTasks' = SetNextRun(schedTasks, proc[p].task.ID, proc[p].entry)
    /\ Leave(p, "")
    /\ UNCHANGED <<cronEntries, entries, nextEntryID, fired, fires, storeFaults>>
    /\ UNCHANGED outsideSched

\* ReloadSchedules entered: the first loop, under the mutex
CallReloadSchedules(p) ==
    /\ lastOp.op # "NewScheduler"
    /\ proc[p].pc = "idle"
    /\ SetSched(clearEntries(Sched))
    /\ proc' = [proc EXCEPT ![p] = [IdleProc EXCEPT !.pc = "gettasks", !.op = "ReloadSchedules"]]
    /\ UNCHANGED <<fired, fires, lastOp, storeFaults>>
    /\ UNCHANGED outsideSched

\* ReloadSchedules: tasks := s.config.GetTasks()
StepGetTasks(p) ==
    /\ proc[p].pc = "gettasks"
    /\ proc' = [proc EXCEPT ![p].pc = "loop", ![p].todo = schedTasks]
    /\ UNCHANGED <<schedTasks, cronEntries, entries, nextEntryID, fired, fires, lastOp, storeFaults>>
    /\ UNCHANGED outsideSched

\* ReloadSchedules: the next task of the second loop, or the return
StepLoop(p) ==
    /\ proc[p].pc = "loop"
    /\ IF proc[p].todo = <<>>
       THEN /\ Return(p)
            /\ Answers("ReloadSchedules", "",
                       IF proc[p].errs > 0 THEN "failed to schedule %d task(s)" ELSE "")
       ELSE /\ proc' = [proc EXCEPT ![p].task = Head(proc[p].todo),
                                    ![p].todo = Tail(proc[p].todo),
                                    ![p].pc = IF Schedulable(Head(proc[p].todo))
                                              THEN "addfunc" ELSE "loop"]
            /\ UNCHANGED lastOp
    /\ UNCHANGED <<schedTasks, cronEntries, entries, nextEntryID, fired, fires, storeFaults>>
    /\ UNCHANGED outsideSched

\* ScheduleTask calls from every goroutine, and the callbacks firing
NextScheduleTasks ==
    \/ Start
    \/ \E p \in SchedProcs, id \in SchedTaskIDs : CallScheduleTask(p, id)
    \/ \E p \in SchedProcs : StepUnschedule(p)
    \/ \E p \in SchedProcs : StepAddFunc(p)
    \/ \E p \in SchedProcs : StepSetEntry(p)
    \/ \E p \in SchedProcs : StepNextRun(p)
    \/ \E n \in 1..MaxEntries : Fire(n)

SpecScheduleTasks == InitSched /\ [][NextScheduleTasks]_vars

\* the goroutine that calls ScheduleTask, and the one that calls
\* ReloadSchedules
Scheduling == "p1"

Reloading == "p2"

\* ReloadSchedules running beside ScheduleTask, UnscheduleTask and GetNextRun
NextReload ==
    \/ Start
    \/ \E id \in SchedTaskIDs : CallScheduleTask(Scheduling, id)
    \/ CallReloadSchedules(Reloading)
    \/ \E p \in SchedProcs : StepUnschedule(p)
    \/ \E p \in SchedProcs : StepAddFunc(p)
    \/ \E p \in SchedProcs : StepSetEntry(p)
    \/ \E p \in SchedProcs : StepNextRun(p)
    \/ \E p \in SchedProcs : StepGetTasks(p)
    \/ \E p \in SchedProcs : StepLoop(p)
    \/ \E id \in SchedTaskIDs : UnscheduleTask(id)
    \/ \E id \in SchedTaskIDs : GetNextRun(id)
    \/ \E n \in 1..MaxEntries : Fire(n)

SpecReload == InitSched /\ [][NextReload]_vars

\* Start over every kind of schedule, and the callbacks firing afterwards
NextStart == Start \/ \E n \in 1..MaxEntries : Fire(n)

InitStart ==
    /\ InitOutsideSched
    /\ NewScheduler
    /\ schedTasks \in TaskLists(Schedules)

SpecStart == InitStart /\ [][NextStart]_vars

\* -------------------------------------------------------------- history
\* Database.ClearHistory: one transaction over backend_uploads and
\* executions; the tables other connections read are backend_uploads and
\* executions, the open transaction works on txUploads and txExecutions

outsideHist == <<trimVars, cfgVars, syncVars, sizeVars, schedVars, dryVars, lateVars>>

executorButTables ==
    <<running, cancelledAt, events, nextID, callerPc, callerTask, callerExec, refused, pc,
      exec, idx,
      backendResults, uploadErrors, attempts, calls, updateCalls, lastRun, faults, progressed,
      scope, archiveFile>>

\* ClearHistory returns err; the deferred tx.Rollback drops what the
\* transaction did when it was not committed
ClearReturns(err) ==
    /\ clearPc' = "returned"
    /\ clearErr' = err
    /\ txUploads' = NoUploads
    /\ txExecutions' = <<>>

\* d.db.Begin()
ClearBegin(ok) ==
    /\ clearPc = "called"
    /\ IF ok
       THEN /\ clearPc' = "begun"
            /\ txUploads' = backend_uploads
            /\ txExecutions' = executions
            /\ UNCHANGED clearErr
       ELSE ClearReturns("failed to begin transaction: %w")
    /\ UNCHANGED <<backend_uploads, executions, histBefore>>
    /\ UNCHANGED <<executorButTables, outsideHist>>

\* DELETE FROM backend_uploads sent outside the transaction
ClearDeleteUploadsAtOnce(ok) ==
    /\ clearPc = "begun"
    /\ IF ok
       THEN /\ clearPc' = "uploadsDeleted"
            /\ txUploads' = NoUploads
            /\ backend_uploads' = NoUploads
            /\ UNCHANGED <<txExecutions, clearErr>>
       ELSE /\ ClearReturns("failed to delete backend uploads: %w")
            /\ UNCHANGED backend_uploads
    /\ UNCHANGED <<executions, histBefore>>
    /\ UNCHANGED <<executorButTables, outsideHist>>

\* tx.Exec("DELETE FROM backend_uploads")
ClearDeleteUploads(ok) ==
    /\ clearPc = "begun"
    /\ IF ok
       THEN /\ clearPc' = "uploadsDeleted"
            /\ txUploads' = NoUploads
            /\ UNCHANGED <<txExecutions, clearErr>>
       ELSE ClearReturns("failed to delete backend uploads: %w")
    /\ UNCHANGED <<backend_uploads, executions, histBefore>>
    /\ UNCHANGED <<executorButTables, outsideHist>>

\* tx.Exec("DELETE FROM executions")
ClearDeleteExecutions(ok) ==
    /\ clearPc = "uploadsDeleted"
    /\ IF ok
       THEN /\ clearPc' = "executionsDeleted"
            /\ txExecutions' = <<>>
            /\ UNCHANGED <<txUploads, clearErr>>
       ELSE ClearReturns("failed to delete executions: %w")
    /\ UNCHANGED <<backend_uploads, executions, histBefore>>
    /\ UNCHANGED <<executorButTables, outsideHist>>

\* tx.Commit(): the tables become what the transaction made of them, or
\* the commit fails and they stay
ClearCommit(ok) ==
    /\ clearPc = "executionsDeleted"
    /\ IF ok
       THEN /\ backend_uploads' = txUploads
            /\ executions' = txExecutions
            /\ ClearReturns("")
       ELSE /\ ClearReturns("failed to commit transaction: %w")
            /\ UNCHANGED <<backend_uploads, executions>>
    /\ UNCHANGED histBefore
    /\ UNCHANGED <<executorButTables, outsideHist>>

NextHistory ==
    \/ \E ok \in BOOLEAN : ClearBegin(ok)
    \/ \E ok \in BOOLEAN : ClearDeleteUploads(ok)
    \/ \E ok \in BOOLEAN : ClearDeleteExecutions(ok)
    \/ \E ok \in BOOLEAN : ClearCommit(ok)

\* rows of finished executions, and the uploads recorded for them
HistoryRows ==
    [task_id : {"t1", "t2"}, status : {"success", "failed"}, error_message : {NoMessage},
     completed : {TRUE}]

HistoryUploads == {<<>>, <<[backend_id |-> "b1", status |-> "success"]>>}

\* ClearHistory called on a database that holds some history
InitHistory ==
    /\ \E held \in SUBSET ExecIDs :
          \E rows \in [held -> HistoryRows], ups \in [held -> HistoryUploads] :
             LET uploads == [e \in ExecIDs |-> IF e \in held THEN ups[e] ELSE <<>>]
             IN /\ ExecutorOver([execs |-> 0, faults |-> 0, progress |-> 0, saves |-> 0],
                                rows, uploads)
                /\ histBefore = Tables(uploads, rows)
    /\ TrimIdle /\ CfgIdle /\ SyncIdle /\ SizeIdle /\ SchedIdle /\ DryIdle /\ LateIdle
    /\ clearPc = "called"
    /\ txUploads = NoUploads
    /\ txExecutions = <<>>
    /\ clearErr = ""

SpecHistory == InitHistory /\ [][NextHistory]_vars

\* handleClearHistory while runs are in flight: the handler calls
\* ClearHistory on the store the runs write to
ClearCall ==
    /\ clearPc = "off"
    /\ clearPc' = "called"
    /\ histBefore' = Tables(backend_uploads, executions)
    /\ UNCHANGED <<txUploads, txExecutions, clearErr, backend_uploads, executions>>
    /\ UNCHANGED <<executorButTables, outsideHist>>

\* the transaction has written and holds the database's write lock: a
\* statement of another connection waits for the commit or the rollback
WriteLocked == clearPc \in {"uploadsDeleted", "executionsDeleted"}

NextCleared ==
    \/ ClearCall
    \/ NextHistory
    \/ ~WriteLocked /\ Next

\* one execution in an environment that does not fail, and one call of
\* ClearHistory at any moment of it
InitCleared == InitState([execs |-> 1, faults |-> 0, progress |-> 0])

SpecCleared == InitCleared /\ [][NextCleared]_vars

\* -------------------------------------------------------------- dry run
\* Executor.ExecuteDryRun: dryRunSync or dryRunArchive, then analyzeBackends

outsideDryRun == <<executorVars, trimVars, cfgVars, syncVars, sizeVars, schedVars, histVars,
                   lateVars>>

\* the file LocalBackend.Test writes
TestFile == ".archivist_test"

\* backend IDs a request may name; "b0" is in no config
DryRunRequests == {<<>>, <<"b1">>, <<"b0", "b1">>}

DryRunReturns(err) ==
    /\ dryPc' = "returned"
    /\ dryErr' = err

\* backend.Factory(backendCfg, ...): Initialize of the backend's type. The
\* local backend creates its base directory; mkdirOk is whether os.MkdirAll
\* succeeds. Gives the directory, the writing calls made and the error.
Factory(b, dir, mkdirOk) ==
    IF Backends[b].Type = "local"
    THEN [dir |-> IF mkdirOk THEN [dir EXCEPT !.Exists = TRUE] ELSE dir,
          writes |-> <<[backend |-> b, op |-> "MkdirAll"]>>,
          err |-> IF mkdirOk THEN "" ELSE "failed to create base directory: %w"]
    ELSE [dir |-> dir, writes |-> <<>>, err |-> ""]

\* backendInstance.Test(): the local backend writes TestFile and removes it
\* again (a failed removal is only logged); the others read
Test(b, dir, writeOk, removeOk) ==
    IF Backends[b].Type # "local" THEN [dir |-> dir, writes |-> <<>>, err |-> ""]
    ELSE IF ~dir.Exists THEN [dir |-> dir, writes |-> <<>>, err |-> "cannot access path: %w"]
    ELSE IF ~writeOk
    THEN [dir |-> dir, writes |-> <<[backend |-> b, op |-> "WriteFile"]>>,
          err |-> "directory is not writable: %w"]
    ELSE [dir |-> [dir EXCEPT !.Files = IF removeOk THEN @ \ {TestFile} ELSE @ \cup {TestFile}],
          writes |-> <<[backend |-> b, op |-> "WriteFile"], [backend |-> b, op |-> "Remove"]>>,
          err |-> ""]

\* ExecuteDryRun entered: GetTask, os.Stat of the source, the default of
\* backendIDs
DryRunEnter(sourceOk) ==
    /\ dryPc = "called"
    /\ IF dryTask \notin TaskIDs
       THEN DryRunReturns("failed to get task: %w") /\ UNCHANGED <<dryBackendIDs, dryIdx>>
       ELSE IF ~sourceOk
       THEN DryRunReturns("source path not accessible: %w") /\ UNCHANGED <<dryBackendIDs, dryIdx>>
       ELSE /\ dryBackendIDs' = IF Len(dryBackendIDs) = 0 THEN Tasks[dryTask].BackendIDs
                                ELSE dryBackendIDs
            /\ dryPc' = "scan"
            /\ UNCHANGED <<dryErr, dryIdx>>
    /\ UNCHANGED <<dryTask, backendDir, backendWrites, dirBefore>>
    /\ UNCHANGED outsideDryRun

\* dryRunSync / dryRunArchive: scanSourceDirectory
DryRunScan(scanOk) ==
    /\ dryPc = "scan"
    /\ IF ~scanOk
       THEN DryRunReturns("failed to scan source: %w") /\ UNCHANGED dryIdx
       ELSE /\ dryPc' = IF Tasks[dryTask].Format = "sync" THEN "plan" ELSE "analyze"
            /\ dryIdx' = 1
            /\ UNCHANGED dryErr
    /\ UNCHANGED <<dryTask, dryBackendIDs, backendDir, backendWrites, dirBefore>>
    /\ UNCHANGED outsideDryRun

\* dryRunSync: the next backend of the loop: GetBackend, Factory,
\* syncer.DryRun; the loop ends at the first DryRun that succeeds
DryRunSyncBackend(mkdirOk, listOk) ==
    /\ dryPc = "plan"
    /\ dryIdx <= Len(dryBackendIDs)
    /\ LET b == dryBackendIDs[dryIdx]
       IN IF b \notin DOMAIN Backends
          THEN /\ dryIdx' = dryIdx + 1
               /\ UNCHANGED <<dryPc, backendDir, backendWrites>>
          ELSE LET made == Factory(b, backendDir, mkdirOk)
               IN /\ backendDir' = made.dir
                  /\ backendWrites' = backendWrites \o made.writes
                  /\ IF made.err = "" /\ listOk
                     THEN dryPc' = "analyze" /\ dryIdx' = 1
                     ELSE dryIdx' = dryIdx + 1 /\ UNCHANGED dryPc
    /\ UNCHANGED <<dryTask, dryBackendIDs, dryErr, dirBefore>>
    /\ UNCHANGED outsideDryRun

\* dryRunSync: no backend gave sync details
DryRunSyncEmpty ==
    /\ dryPc = "plan"
    /\ dryIdx > Len(dryBackendIDs)
    /\ dryPc' = "analyze"
    /\ dryIdx' = 1
    /\ UNCHANGED <<dryTask, dryBackendIDs, dryErr, backendDir, backendWrites, dirBefore>>
    /\ UNCHANGED outsideDryRun

\* analyzeBackends: the next backend of the loop: GetBackend, Factory, Test
AnalyzeBackend(mkdirOk, writeOk, removeOk) ==
    /\ dryPc = "analyze"
    /\ dryIdx <= Len(dryBackendIDs)
    /\ LET b == dryBackendIDs[dryIdx]
       IN IF b \notin DOMAIN Backends
          THEN UNCHANGED <<backendDir, backendWrites>>
          ELSE LET made == Factory(b, backendDir, mkdirOk)
                   tested == Test(b, made.dir, writeOk, removeOk)
               IN IF made.err # ""
                  THEN /\ backendDir' = made.dir
                       /\ backendWrites' = backendWrites \o made.writes
                  ELSE /\ backendDir' = tested.dir
                       /\ backendWrites' = backendWrites \o made.writes \o tested.writes
    /\ dryIdx' = dryIdx + 1
    /\ UNCHANGED <<dryPc, dryTask, dryBackendIDs, dryErr, dirBefore>>
    /\ UNCHANGED outsideDryRun

\* ExecuteDryRun returns the result
DryRunReturn ==
    /\ dryPc = "analyze"
    /\ dryIdx > Len(dryBackendIDs)
    /\ DryRunReturns("")
    /\ UNCHANGED <<dryTask, dryBackendIDs, dryIdx, backendDir, backendWrites, dirBefore>>
    /\ UNCHANGED outsideDryRun

NextDryRun ==
    \/ \E sourceOk \in BOOLEAN : DryRunEnter(sourceOk)
    \/ \E scanOk \in BOOLEAN : DryRunScan(scanOk)
    \/ \E mkdirOk \in BOOLEAN, listOk \in BOOLEAN : DryRunSyncBackend(mkdirOk, listOk)
    \/ DryRunSyncEmpty
    \/ \E mkdirOk \in BOOLEAN, writeOk \in BOOLEAN, removeOk \in BOOLEAN :
          AnalyzeBackend(mkdirOk, writeOk, removeOk)
    \/ DryRunReturn

\* ExecuteDryRun called on a new executor, for a task of the config or an
\* unknown one, the local backend's directory existing or not
InitDryRun ==
    /\ ExecutorIdle([execs |-> 0, faults |-> 0, progress |-> 0, saves |-> 0])
    /\ TrimIdle /\ CfgIdle /\ SyncIdle /\ SizeIdle /\ SchedIdle /\ HistIdle /\ LateIdle
    /\ dryPc = "called"
    /\ dryTask \in RequestIDs
    /\ dryBackendIDs \in DryRunRequests
    /\ dryIdx = 0
    /\ dryErr = ""
    /\ backendDir \in {NoDir, [Exists |-> TRUE, Files |-> {}], [Exists |-> TRUE, Files |-> {TestFile}]}
    /\ backendWrites = <<>>
    /\ dirBefore = backendDir

SpecDryRun == InitDryRun /\ [][NextDryRun]_vars

\* ------------------------------------------------------------ filenames
\* sanitizeFilename on task names; the config store and the API require a
\* task name to be non-empty and nothing else

outsideNames == <<executorVars, trimVars, cfgVars, syncVars, sizeVars, schedVars, histVars,
                  dryVars, wsVars, tarVars, rangeVars, timeVars>>

\* longest task name
MaxNameLen == 2

\* a lower case letter, an upper case letter, a digit, the three marks of
\* [a-z0-9._-], a space, two of the characters sanitizeFilename removes, and
\* one it does not know
NameChars == {"a", "T", "7", ".", "_", "-", " ", ":", "/", "+"}

NameInputs == UNION {[1..n -> NameChars] : n \in 1..MaxNameLen}

\* sanitizeFilename applied to the task name, then to its own result
Sanitize ==
    /\ Len(sanitized) < 2
    /\ sanitized' = Append(sanitized,
                           sanitizeFilename(IF sanitized = <<>> THEN nameArg
                                            ELSE sanitized[Len(sanitized)]))
    /\ UNCHANGED <<nameArg, outsideNames>>

NextNames == Sanitize

InitNames ==
    /\ ExecutorIdle([execs |-> 0, faults |-> 0, progress |-> 0, saves |-> 0])
    /\ TrimIdle /\ CfgIdle /\ SyncIdle /\ SizeIdle /\ SchedIdle /\ HistIdle /\ DryIdle /\ WsIdle
    /\ TarIdle /\ RangeIdle /\ TimesIdle
    /\ nameArg \in NameInputs
    /\ sanitized = <<>>

SpecNames == InitNames /\ [][NextNames]_vars

\* ------------------------------------------------------------- progress
\* Executor.broadcastEvent calls Server.BroadcastProgress on the goroutine
\* of the run; BroadcastProgress holds the read lock of wsMu over a loop of
\* WriteJSON calls, one per registered connection. No write deadline is set
\* on a connection, so a write returns when the frame fits the send buffer
\* or when the connection is broken

outsideWs == <<executorVars, trimVars, cfgVars, syncVars, sizeVars, schedVars, histVars,
               dryVars, nameVars, tarVars, rangeVars, timeVars>>

\* events one run emits
MaxEvents == 2

\* frames the send buffer of a connection holds
MaxBuffered == 1

\* handleWebSocket: Upgrade, then wsClients[conn] = true under the write lock
Connect(c) ==
    /\ c \notin wsClients
    /\ peer[c] = "closed"
    /\ wsReaders = {}
    /\ wsClients' = wsClients \cup {c}
    /\ peer' = [peer EXCEPT ![c] = "reading"]
    /\ sendBuf' = [sendBuf EXCEPT ![c] = 0]
    /\ UNCHANGED <<wsReaders, emitPc, emitTodo, emitConn, emitLeft, outsideWs>>

\* the other end reads a frame
Consume(c) ==
    /\ peer[c] = "reading"
    /\ sendBuf[c] > 0
    /\ sendBuf' = [sendBuf EXCEPT ![c] = @ - 1]
    /\ UNCHANGED <<wsClients, wsReaders, peer, emitPc, emitTodo, emitConn, emitLeft, outsideWs>>

\* the other end stops reading and keeps the connection open
Stall(c) ==
    /\ peer[c] = "reading"
    /\ peer' = [peer EXCEPT ![c] = "stalled"]
    /\ UNCHANGED <<wsClients, wsReaders, sendBuf, emitPc, emitTodo, emitConn, emitLeft,
                   outsideWs>>

\* the other end closes the connection
Hangup(c) ==
    /\ peer[c] = "reading"
    /\ peer' = [peer EXCEPT ![c] = "closed"]
    /\ UNCHANGED <<wsClients, wsReaders, sendBuf, emitPc, emitTodo, emitConn, emitLeft,
                   outsideWs>>

\* handleWebSocket after ReadMessage returned an error: the deferred
\* delete(wsClients, conn) under the write lock
Disconnect(c) ==
    /\ c \in wsClients
    /\ peer[c] = "closed"
    /\ wsReaders = {}
    /\ wsClients' = wsClients \ {c}
    /\ UNCHANGED <<wsReaders, peer, sendBuf, emitPc, emitTodo, emitConn, emitLeft, outsideWs>>

\* broadcastEvent -> BroadcastProgress: wsMu.RLock and the start of the range loop
BroadcastProgress(r) ==
    /\ emitPc[r] = "run"
    /\ wsReaders' = wsReaders \cup {r}
    /\ emitTodo' = [emitTodo EXCEPT ![r] = wsClients]
    /\ emitPc' = [emitPc EXCEPT ![r] = "locked"]
    /\ UNCHANGED <<wsClients, peer, sendBuf, emitConn, emitLeft, outsideWs>>

\* the loop reaches a client and calls client.WriteJSON(event)
WriteJSON(r, c) ==
    /\ emitPc[r] = "locked"
    /\ c \in emitTodo[r]
    /\ emitTodo' = [emitTodo EXCEPT ![r] = @ \ {c}]
    /\ emitConn' = [emitConn EXCEPT ![r] = c]
    /\ emitPc' = [emitPc EXCEPT ![r] = "writing"]
    /\ UNCHANGED <<wsClients, wsReaders, peer, sendBuf, emitLeft, outsideWs>>

\* WriteJSON returns: with an error on a broken connection (the loop
\* continues), with nil once the frame is in the send buffer
WriteReturns(r) ==
    LET c == emitConn[r]
    IN /\ emitPc[r] = "writing"
       /\ \/ /\ peer[c] = "closed"
             /\ UNCHANGED sendBuf
          \/ /\ peer[c] # "closed"
             /\ sendBuf[c] < MaxBuffered
             /\ sendBuf' = [sendBuf EXCEPT ![c] = @ + 1]
       /\ emitConn' = [emitConn EXCEPT ![r] = ""]
       /\ emitPc' = [emitPc EXCEPT ![r] = "locked"]
       /\ UNCHANGED <<wsClients, wsReaders, peer, emitTodo, emitLeft, outsideWs>>

\* the loop is over: the deferred wsMu.RUnlock, and the run goes on, to its
\* next event or to its end
BroadcastReturns(r) ==
    /\ emitPc[r] = "locked"
    /\ emitTodo[r] = {}
    /\ wsReaders' = wsReaders \ {r}
    /\ emitLeft' = [emitLeft EXCEPT ![r] = @ - 1]
    /\ emitPc' = [emitPc EXCEPT ![r] = IF emitLeft[r] = 1 THEN "done" ELSE "run"]
    /\ UNCHANGED <<wsClients, peer, sendBuf, emitTodo, emitConn, outsideWs>>

Emit(r) ==
    \/ BroadcastProgress(r)
    \/ \E c \in Conns : WriteJSON(r, c)
    \/ WriteReturns(r)
    \/ BroadcastReturns(r)

NextProgress ==
    \/ \E c \in Conns : Connect(c)
    \/ \E c \in Conns : Consume(c)
    \/ \E c \in Conns : Stall(c)
    \/ \E c \in Conns : Hangup(c)
    \/ \E c \in Conns : Disconnect(c)
    \/ \E r \in Emitters : BroadcastProgress(r)
    \/ \E r \in Emitters, c \in Conns : WriteJSON(r, c)
    \/ \E r \in Emitters : WriteReturns(r)
    \/ \E r \in Emitters : BroadcastReturns(r)

\* two runs about to emit their events, no connection open yet
InitProgress ==
    /\ ExecutorIdle([execs |-> 0, faults |-> 0, progress |-> 0, saves |-> 0])
    /\ TrimIdle /\ CfgIdle /\ SyncIdle /\ SizeIdle /\ SchedIdle /\ HistIdle /\ DryIdle
    /\ NameIdle /\ TarIdle /\ RangeIdle /\ TimesIdle
    /\ wsClients = {}
    /\ wsReaders = {}
    /\ peer = [c \in Conns |-> "closed"]
    /\ sendBuf = [c \in Conns |-> 0]
    /\ emitPc = [r \in Emitters |-> "run"]
    /\ emitTodo = [r \in Emitters |-> {}]
    /\ emitConn = [r \in Emitters |-> ""]
    /\ emitLeft = [r \in Emitters |-> MaxEvents]

\* the goroutine of every run is scheduled, and a reading peer keeps reading
SpecProgress ==
    /\ InitProgress
    /\ [][NextProgress]_vars
    /\ \A r \in Emitters : WF_vars(Emit(r))
    /\ \A c \in Conns : WF_vars(Consume(c))

\* -------------------------------------------------------------- builder
\* Builder.createTarGz: file -> tar -> gzip -> MultiWriter(outFile, hasher),
\* and what runExecution does with the result. The content of a file or of
\* a writer's buffer is a sequence of blocks

outsideTar == <<executorVars, trimVars, cfgVars, syncVars, sizeVars, schedVars, histVars,
                dryVars, nameVars, wsVars, rangeVars, timeVars>>

\* the source trees: the root directory alone, with one file, with two
SourceTrees == {<<".">>, <<".", "f1">>, <<".", "f1", "f2">>}

\* tar.FileInfoHeader and WriteHeader, then io.Copy for a file
TarBlocks(entry) ==
    IF entry = "." THEN <<<<"header", entry>>>>
    ELSE <<<<"header", entry>>, <<"data", entry>>>>

\* hasher.Sum over the bytes the hasher has taken
Sha256(content) == <<"sha256">> \o content

\* stat.Size()
Size(content) == Len(content)

\* a write of blocks to archiveWriter: the gzip writer keeps what it is
\* given and writes it out when its buffer is full (flush), the plain
\* MultiWriter passes it on at once
WriteArchive(blocks, flush) ==
    IF compression = "gzip"
    THEN IF flush
         THEN /\ outFile' = outFile \o gzipBuf \o blocks
              /\ gzipBuf' = <<>>
         ELSE /\ gzipBuf' = gzipBuf \o blocks
              /\ UNCHANGED outFile
    ELSE /\ outFile' = outFile \o blocks
         /\ UNCHANGED gzipBuf

\* os.Create(outputPath), and on success the writers
Create(ok) ==
    /\ tarPc = "called"
    /\ IF ok
       THEN /\ tarPc' = "walking"
            /\ UNCHANGED tarResult
       ELSE /\ tarPc' = "returned"
            /\ tarResult' = [NoTarResult EXCEPT !.err = "failed to create archive file"]
    /\ UNCHANGED <<tarTodo, compression, gzipBuf, outFile, tarCancelledAt, tarUploads,
                   outsideTar>>

\* one call of the walk function; an error from it ends the walk and is
\* returned after the deferred closes
Walk(ok, flush) ==
    /\ tarPc = "walking"
    /\ tarTodo # <<>>
    /\ IF ok
       THEN /\ WriteArchive(TarBlocks(Head(tarTodo)), flush)
            /\ tarTodo' = Tail(tarTodo)
            /\ UNCHANGED <<tarPc, tarResult>>
       ELSE /\ tarResult' = [NoTarResult EXCEPT !.err = "failed to create archive"]
            /\ tarPc' = "summed"
            /\ UNCHANGED <<tarTodo, gzipBuf, outFile>>
    /\ UNCHANGED <<compression, tarCancelledAt, tarUploads, outsideTar>>

\* the walk is over: outFile.Stat() and hasher.Sum(nil) fix the values
\* createTarGz returns
Sum(statOk) ==
    /\ tarPc = "walking"
    /\ tarTodo = <<>>
    /\ tarResult' = IF statOk
                    THEN [hash |-> Sha256(outFile), size |-> Size(outFile), err |-> ""]
                    ELSE [NoTarResult EXCEPT !.err = "failed to stat archive"]
    /\ tarPc' = "summed"
    /\ UNCHANGED <<tarTodo, compression, gzipBuf, outFile, tarCancelledAt, tarUploads,
                   outsideTar>>

\* the deferred calls, last registered first: tarWriter.Close writes the
\* footer to archiveWriter, gzipWriter.Close writes what the gzip writer
\* holds and its trailer; after a walk error the tar writer writes nothing
CloseWriters ==
    /\ tarPc = "summed"
    /\ LET footer == IF tarResult.err = "failed to create archive" THEN <<>>
                     ELSE <<<<"footer">>>>
       IN outFile' = outFile \o gzipBuf \o footer
                     \o (IF compression = "gzip" THEN <<<<"trailer">>>> ELSE <<>>)
    /\ gzipBuf' = <<>>
    /\ tarPc' = "closed"
    /\ UNCHANGED <<tarTodo, compression, tarResult, tarCancelledAt, tarUploads, outsideTar>>

\* the deferred outFile.Close; createTarGz and Build return
CloseFile ==
    /\ tarPc = "closed"
    /\ tarPc' = "returned"
    /\ UNCHANGED <<tarTodo, compression, gzipBuf, outFile, tarResult, tarCancelledAt,
                   tarUploads, outsideTar>>

\* runExecution after Build: on an error the run fails, otherwise the
\* upload loop calls uploadToBackend, which calls Upload with the run's ctx
AfterBuild ==
    /\ tarPc = "returned"
    /\ tarPc' = "end"
    /\ tarUploads' = IF tarResult.err = "" THEN tarUploads + 1 ELSE tarUploads
    /\ UNCHANGED <<tarTodo, compression, gzipBuf, outFile, tarResult, tarCancelledAt,
                   outsideTar>>

\* Executor.Cancel on the run that is building: the cancel function of its ctx
CancelBuild ==
    /\ tarPc \notin {"off", "end"}
    /\ tarCancelledAt = "none"
    /\ tarCancelledAt' = tarPc
    /\ UNCHANGED <<tarPc, tarTodo, compression, gzipBuf, outFile, tarResult, tarUploads,
                   outsideTar>>

NextBuilder ==
    \/ \E ok \in BOOLEAN : Create(ok)
    \/ \E ok \in BOOLEAN, flush \in BOOLEAN : Walk(ok, flush)
    \/ \E statOk \in BOOLEAN : Sum(statOk)
    \/ CloseWriters
    \/ CloseFile
    \/ AfterBuild
    \/ CancelBuild

InitBuilder ==
    /\ ExecutorIdle([execs |-> 0, faults |-> 0, progress |-> 0, saves |-> 0])
    /\ TrimIdle /\ CfgIdle /\ SyncIdle /\ SizeIdle /\ SchedIdle /\ HistIdle /\ DryIdle
    /\ NameIdle /\ WsIdle /\ RangeIdle /\ TimesIdle
    /\ tarPc = "called"
    /\ tarTodo \in SourceTrees
    /\ compression \in {"gzip", "none"}
    /\ gzipBuf = <<>>
    /\ outFile = <<>>
    /\ tarResult = NoTarResult
    /\ tarCancelledAt = "none"
    /\ tarUploads = 0

SpecBuilder == InitBuilder /\ [][NextBuilder]_vars

\* ----------------------------------------------------------- range loop
\* the loop `for _, task := range tasks` of Start and ReloadSchedules, which
\* passes &task to scheduleTask; the closure scheduleTask gives to AddFunc
\* reads task.ID through that pointer when the entry fires

outsideRange == <<executorVars, trimVars, cfgVars, syncVars, sizeVars, schedVars, histVars,
                  dryVars, nameVars, wsVars, tarVars, timeVars>>

\* the schedules of the tasks the loop runs over
RangeSchedules == ScheduleInputs \cup {CronSchedule("")}

\* the variable task of an iteration, under the variables made so far: by
\* the language version of the build each iteration has a variable of its own
RangeVarPerLoop(cells, task) ==
    [cells |-> IF cells = <<>> THEN <<task>> ELSE [cells EXCEPT ![1] = task], var |-> 1]

RangeVar(cells, task) == [cells |-> Append(cells, task), var |-> Len(cells) + 1]

\* one iteration: the test of Enabled and Schedule.Type, and scheduleTask(&task):
\* scheduleToCron, AddFunc with the closure, s.entries[task.ID] = entryID,
\* UpdateTaskSchedule(task.ID, nil, &nextRun); an error is logged
RangeStep ==
    /\ rangeIdx < Len(rangeTasks)
    /\ LET v == RangeVar(taskVars, rangeTasks[rangeIdx + 1])
           task == v.cells[v.var]
           c == scheduleToCron(task.Schedule)
           entryID == Cardinality(callbacks) + 1
       IN /\ taskVars' = v.cells
          /\ IF Schedulable(task) /\ c.err = "" /\ CronParses(c.expr)
             THEN /\ callbacks' = callbacks \cup {[Entry |-> entryID, Var |-> v.var,
                                                   For |-> task.ID]}
                  /\ pushedNext' = MapPut(pushedNext, task.ID, entryID)
             ELSE UNCHANGED <<callbacks, pushedNext>>
    /\ rangeIdx' = rangeIdx + 1
    /\ UNCHANGED <<rangeOp, rangeTasks, executed, outsideRange>>

\* the cron driver runs the callback of entry n: Execute(task.ID); it runs
\* callbacks once Start has called cron.Start, which it does after its loop
RangeFire(n) ==
    /\ rangeOp = "ReloadSchedules" \/ rangeIdx = Len(rangeTasks)
    /\ \E cb \in callbacks :
          /\ cb.Entry = n
          /\ executed' = executed \cup {[Entry |-> n, Task |-> taskVars[cb.Var].ID]}
    /\ UNCHANGED <<rangeOp, rangeTasks, rangeIdx, taskVars, callbacks, pushedNext,
                   outsideRange>>

NextRange ==
    \/ RangeStep
    \/ \E n \in 1..MaxEntries : RangeFire(n)

InitRange ==
    /\ ExecutorIdle([execs |-> 0, faults |-> 0, progress |-> 0, saves |-> 0])
    /\ TrimIdle /\ CfgIdle /\ SyncIdle /\ SizeIdle /\ SchedIdle /\ HistIdle /\ DryIdle
    /\ NameIdle /\ WsIdle /\ TarIdle /\ TimesIdle
    /\ rangeOp \in {"Start", "ReloadSchedules"}
    /\ rangeTasks \in TaskLists(RangeSchedules)
    /\ rangeIdx = 0
    /\ taskVars = <<>>
    /\ callbacks = {}
    /\ pushedNext = <<>>
    /\ executed = {}

SpecRange == InitRange /\ [][NextRange]_vars

\* ----------------------------------------------------------- task times
\* Manager.UpdateTaskSchedule(id, lastRun, nextRun) and its two callers; a
\* nil pointer is 0. The document in memory is what GetTask and the API read

outsideTimes == <<executorVars, trimVars, cfgVars, syncVars, sizeVars, schedVars, histVars,
                  dryVars, nameVars, wsVars, tarVars, rangeVars>>

\* the last time on the clock
MaxClock == 5

\* Manager.UpdateTaskSchedule
SetTaskSchedule(times, id, last, next) ==
    IF id \in DOMAIN times
    THEN [times EXCEPT ![id] = [LastRun |-> last, NextRun |-> next]]
    ELSE times

\* runExecution and runSyncExecution at the end of a run:
\* UpdateTaskSchedule(task.ID, &now, nil)
RecordLastRun(id) ==
    /\ clock < MaxClock
    /\ taskTimes' = SetTaskSchedule(taskTimes, id, clock, 0)
    /\ finishedAt' = [finishedAt EXCEPT ![id] = clock]
    /\ clock' = clock + 1
    /\ UNCHANGED <<computedNext, outsideTimes>>

\* scheduleTask: entry.Next of the new cron entry, a time after now, and
\* UpdateTaskSchedule(task.ID, nil, &nextRun)
PushNextRun(id) ==
    /\ clock < MaxClock
    /\ taskTimes' = SetTaskSchedule(taskTimes, id, 0, clock + 1)
    /\ computedNext' = [computedNext EXCEPT ![id] = clock + 1]
    /\ clock' = clock + 1
    /\ UNCHANGED <<finishedAt, outsideTimes>>

NextTimes ==
    \/ \E id \in TimedTasks : RecordLastRun(id)
    \/ \E id \in TimedTasks : PushNextRun(id)

InitTimes ==
    /\ ExecutorIdle([execs |-> 0, faults |-> 0, progress |-> 0, saves |-> 0])
    /\ TrimIdle /\ CfgIdle /\ SyncIdle /\ SizeIdle /\ SchedIdle /\ HistIdle /\ DryIdle
    /\ NameIdle /\ WsIdle /\ TarIdle /\ RangeIdle
    /\ TimesIdle

SpecTimes == InitTimes /\ [][NextTimes]_vars

\* Executor.IsRunning
IsRunning(t) == t \in DOMAIN running

\* ------------------------------------------------------------ properties
\* executions whose Execute returned an execution ID
Started == {e \in ExecIDs : pc[e] # "none"}

\* executions whose run body has returned
Returned == {e \in ExecIDs : pc[e] = "done"}

\* runs that left runExecution at one of its two early failure exits
Aborted == {e \in ExecIDs : exec[e].ErrorMessage.fmt \in {"Source path not accessible: %v",
                                                         "Failed to create archive: %v"}}

\* executions whose run is past the loop over task.BackendIDs and its roll-up
RolledUp == {e \in ExecIDs \ Aborted : pc[e] \in {"retention", "complete", "done"}}

HasRow(e) == e \in DOMAIN executions

\* history rows of task t with status running whose run has not returned
RunningRows(t) == {e \in DOMAIN executions : /\ executions[e].task_id = t
                                             /\ executions[e].status = "running"
                                             /\ pc[e] # "done"}

IndicesOf(seq, S) == {i \in DOMAIN seq : seq[i] \in S}

FailedCount(e) == Cardinality({i \in DOMAIN backendResults[e] : backendResults[e][i].Status = "failed"})

\* C1: for any task the execution rows with status running, of runs still in
\* flight, are at most one, under every interleaving of Execute calls from
\* the scheduler and the API.
C1_AtMostOneRunPerTask == \A t \in TaskIDs : Cardinality(RunningRows(t)) <= 1

\* C2: when Cancel was invoked while the run was in flight (archive creation,
\* upload or sync under way), a terminal status of the execution row is
\* cancelled.
C2_CancelledStatus ==
    \A e \in ExecIDs :
        (HasRow(e) /\ cancelledAt[e] = "inflight" /\ executions[e].status \in TerminalStatus)
            => executions[e].status = "cancelled"

\* C3: once the body of a run has returned, on whatever path, its history row
\* has left running for a terminal status and a terminal event was emitted.
C3_TerminalRowAndEvent ==
    \A e \in Returned :
        /\ HasRow(e) /\ executions[e].status \in TerminalStatus
        /\ IndicesOf(events[e], TerminalEvents) # {}

\* each run calls UpdateExecution exactly once, with the terminal state it
\* computed: no call while the run is before its end, one call afterwards,
\* and a terminal row carries the status and message of that call
C4_RowWrittenOnce ==
    \A e \in ExecIDs :
        /\ updateCalls[e] <= 1
        /\ pc[e] \in {"retention", "complete", "done"} => updateCalls[e] = 1
        /\ (HasRow(e) /\ updateCalls[e] = 0) => executions[e].status = "running"
        /\ (HasRow(e) /\ executions[e].status \in TerminalStatus)
              => /\ updateCalls[e] = 1
                 /\ executions[e].status = exec[e].Status
                 /\ executions[e].error_message = exec[e].ErrorMessage

\* a step leaves a row that has a terminal status as it is
C4_TerminalRowKept ==
    \A e \in DOMAIN executions :
        executions[e].status \in TerminalStatus
            => (e \in DOMAIN executions' /\ executions'[e] = executions[e])

\* C4: both halves: the row is written once, with the terminal state, and no
\* step changes a row that has a terminal status.
C4_TerminalRowImmutable == [](C4_RowWrittenOnce) /\ [][C4_TerminalRowKept]_vars

\* a terminal row, written before retention ran and Cancel was invoked
C4_Witness ==
    \E e \in Returned :
        /\ HasRow(e) /\ executions[e].status \in TerminalStatus
        /\ cancelledAt[e] = "idle"
        /\ \E i \in DOMAIN calls[e] : calls[e][i].op = "Delete"

\* C5: the events of one execution start with execution_started, which comes
\* before every progress event; at most one terminal event is emitted, it is
\* the last event, and it is there once the run body has returned.
C5_EventOrder ==
    \A e \in ExecIDs :
        /\ events[e] # <<>> => events[e][1] = "execution_started"
        /\ IndicesOf(events[e], {"execution_started"}) \subseteq {1}
        /\ Cardinality(IndicesOf(events[e], TerminalEvents)) <= 1
        /\ IndicesOf(events[e], TerminalEvents) \subseteq {Len(events[e])}
        /\ e \in Started => events[e] # <<>>
        /\ e \in Returned => IndicesOf(events[e], TerminalEvents) = {Len(events[e])}
        /\ e \notin Returned => IndicesOf(events[e], TerminalEvents) = {}

\* a returned run that emitted progress events between started and its terminal event
C5_Witness ==
    \E e \in Returned :
        /\ IndicesOf(events[e], ProgressEvents) # {}
        /\ events[e][Len(events[e])] \in TerminalEvents

\* the execution status and message that follow from the per-backend results
\* of e, with allFailed the message format of the case no backend succeeded
RolledUpAs(e, allFailed) ==
    LET n == Len(backendResults[e])
        f == FailedCount(e)
    IN /\ n = Len(TaskOf(e).BackendIDs)
       /\ f = 0 => /\ exec[e].Status = "success"
                   /\ exec[e].ErrorMessage = NoMessage
       /\ (0 < f /\ f < n) => /\ exec[e].Status = "success"
                              /\ exec[e].ErrorMessage.fmt = "%d of %d backends failed: %s"
                              /\ exec[e].ErrorMessage.args = <<f, n>>
       /\ f = n => /\ exec[e].Status = "failed"
                   /\ exec[e].ErrorMessage.fmt = allFailed
       /\ (HasRow(e) /\ executions[e].status \in TerminalStatus)
              => /\ executions[e].status = exec[e].Status
                 /\ executions[e].error_message = exec[e].ErrorMessage

\* C6 as stated: the roll-up of the per-backend results, in archive mode and
\* in sync mode alike, with the message "All backend uploads failed:" when no
\* backend succeeded.
C6_RollUpAsStated == \A e \in RolledUp : RolledUpAs(e, "All backend uploads failed: %s")

\* the roll-up of a run with F failed results out of N: success without
\* message when N > 0 and F = 0, success with "F of N backends failed:" when
\* 0 < F < N, failed with the message format allFailed when F = N, which
\* includes a task without backend IDs
RolledUpByMode(e, allFailed) ==
    LET n == Len(backendResults[e])
        f == FailedCount(e)
    IN /\ n = Len(TaskOf(e).BackendIDs)
       /\ (f = 0 /\ n > 0) => /\ exec[e].Status = "success"
                              /\ exec[e].ErrorMessage = NoMessage
       /\ (0 < f /\ f < n) => /\ exec[e].Status = "success"
                              /\ exec[e].ErrorMessage.fmt = "%d of %d backends failed: %s"
                              /\ exec[e].ErrorMessage.args = <<f, n>>
                              /\ Len(exec[e].ErrorMessage.details) = f
       /\ f = n => /\ exec[e].Status = "failed"
                   /\ exec[e].ErrorMessage.fmt = allFailed
                   /\ Len(exec[e].ErrorMessage.details) = f
       /\ (HasRow(e) /\ executions[e].status \in TerminalStatus)
              => /\ executions[e].status = exec[e].Status
                 /\ executions[e].error_message = exec[e].ErrorMessage

\* C6 (amended): the execution status is rolled up from the per-backend
\* results as stated, except that the message of the case no backend
\* succeeded starts "All backend uploads failed:" in archive mode and
\* "All backend syncs failed:" in sync mode, and that a task without backend
\* IDs falls under that case.
C6_RollUp ==
    \A e \in RolledUp :
        RolledUpByMode(e, IF TaskOf(e).Format = "sync" THEN "All backend syncs failed: %s"
                                                        ELSE "All backend uploads failed: %s")

\* the three cases of the roll-up, the all-failed one in sync mode
C6_Witness ==
    \E e \in RolledUp :
        /\ TaskOf(e).Format = "sync"
        /\ FailedCount(e) = Len(backendResults[e])
        /\ HasRow(e) /\ executions[e].status = "failed"

\* C7: a run past its loop attempted every backend ID of the task exactly
\* once in declared order, and the backend_uploads rows of the execution are
\* one per backend in that same order.
C7_OneRowPerBackend ==
    \A e \in RolledUp :
        /\ attempts[e] = TaskOf(e).BackendIDs
        /\ [i \in DOMAIN backend_uploads[e] |-> backend_uploads[e][i].backend_id]
              = TaskOf(e).BackendIDs

\* runs whose archive builder failed
BuildFailed == {e \in ExecIDs : exec[e].ErrorMessage.fmt = "Failed to create archive: %v"}

\* C8: when the archive builder fails, the run has ended with status failed
\* and the event execution_failed, no backend was attempted, no Upload was
\* called and no backend_uploads row was written for the execution.
C8_BuildFailureAborts ==
    \A e \in BuildFailed :
        /\ pc[e] = "done"
        /\ exec[e].Status = "failed"
        /\ HasRow(e) /\ executions[e].status \in {"running", "failed"}
        /\ updateCalls[e] = 1
        /\ events[e][Len(events[e])] = "execution_failed"
        /\ attempts[e] = <<>>
        /\ calls[e] = <<>>
        /\ backendResults[e] = <<>>
        /\ backend_uploads[e] = <<>>

\* a builder failure after the builder reported progress
C8_Witness ==
    \E e \in BuildFailed :
        /\ pc[e] = "done"
        /\ "archive_progress" \in {events[e][i] : i \in DOMAIN events[e]}
        /\ executions[e].status = "failed"

\* tasks of which a run has returned and no other execution is under way
Finished == {t \in TaskIDs : /\ \E e \in Returned : exec[e].TaskID = t
                             /\ \A e \in DOMAIN executions :
                                   executions[e].task_id = t => e \in Returned}

\* C9: once the body of a run has returned, on whatever path, e.running has
\* no entry for its task until another Execute of that task creates one:
\* IsRunning is false and an Execute of the task passes its tests.
C9_RunningEntryCleared ==
    \A t \in Finished :
        /\ ~IsRunning(t)
        /\ \A c \in Callers : callerPc[c] = "idle" => ENABLED ExecuteCheck(c, t)

\* a cancelled run has returned and a caller is about to call Execute
C9_Witness ==
    \E e \in Returned, c \in Callers :
        /\ exec[e].TaskID \in Finished
        /\ cancelledAt[e] # "none"
        /\ exec[e].Status = "failed"
        /\ callerPc[c] = "idle"

\* C10: no List and no Delete is called on a backend, for a run, after
\* Cancel was invoked on that run.
C10_NoRetentionAfterCancel ==
    \A e \in ExecIDs : \A i \in DOMAIN calls[e] :
        calls[e][i].op \in {"List", "Delete"} => ~calls[e][i].done

\* ------------------------------------------------- properties: retention
Range(seq) == {seq[i] : i \in DOMAIN seq}

\* the delete loop of applyRetentionPolicy is over
TrimEnded == /\ trimPc = "delete"
             /\ Len(deleted) = ToDeleteCount(Len(backups), trimTask.KeepLast)

\* position of the timestamp of an archive name in time order, 0 for other names
StampRank(path) ==
    IF \E i \in DOMAIN Stamps : Stamps[i] = path[Len(path) - 2]
    THEN CHOOSE i \in DOMAIN Stamps : Stamps[i] = path[Len(path) - 2]
    ELSE 0

\* a is older than b: by lastModified, ties broken by name ascending
Older(a, b) ==
    \/ a.LastModified < b.LastModified
    \/ a.LastModified = b.LastModified /\ StampRank(a.Path) < StampRank(b.Path)

\* the m oldest entries of S
Oldest(S, m) == {a \in S : Cardinality({b \in S : Older(b, a)}) < m}

\* C11: when the retention pass over a backend is over, the entries it called
\* Delete on are exactly the len(matches) - keep_last matching entries that
\* are oldest by lastModified, ties broken by name, whatever the order of List.
C11_DeletesOldest ==
    TrimEnded => Range(deleted) = {a.Path : a \in Oldest(Range(backups),
                                        ToDeleteCount(Len(backups), trimTask.KeepLast))}

\* C12: the entries retention considers are exactly the listed entries whose
\* base name starts with the sanitized task name and "_" and ends with .gz,
\* and the archive the run uploaded is one of them.
C12_ConsidersSanitizedName ==
    trimPc = "delete" =>
        /\ Range(backups) = {r \in Range(listing) :
                                IsBackupOf(sanitizeFilename(trimTask.Name), r.Path)}
        /\ \E r \in Range(backups), i \in DOMAIN Stamps :
              r.Path = GenerateFilename(trimTask.Name, Stamps[i])

\* every path passed to Delete is gone from the backend
AllDeleted == \A i \in DOMAIN deleted : \A r \in remote : r.Path # deleted[i]

\* List returned the entries oldest first
OldestFirst == \A i, j \in DOMAIN listing : i < j => Older(listing[i], listing[j])

\* C13 as stated: in the trim scenario (six preloaded archives, keep_last 3)
\* the backend holds exactly 4 archives after the run: the 3 oldest preloaded
\* ones are deleted and the new one is retained.
C13_TrimLeavesFour ==
    TrimEnded => /\ Cardinality(remote) = 4
                 /\ {r.LastModified : r \in remote} = {4, 5, 6, 7}

\* C13 (amended): in the trim scenario the run calls Delete on 4 entries, the
\* first 4 of the 7 matching ones in the order List returned them; when every
\* Delete succeeds the backend holds exactly 3 archives (keep_last), and when
\* moreover List returned them oldest first, the 4 oldest preloaded ones are
\* deleted and the 2 newest preloaded ones and the new one are retained.
C13_TrimLeavesKeepLast ==
    TrimEnded => /\ Len(backups) = 7
                 /\ deleted = [i \in 1..4 |-> listing[i].Path]
                 /\ Cardinality(remote) >= 3
                 /\ AllDeleted => Cardinality(remote) = 3
                 /\ (AllDeleted /\ OldestFirst) => {r.LastModified : r \in remote} = {5, 6, 7}

\* the scenario run to its end with List oldest first and every Delete done
C13_Witness ==
    /\ TrimEnded /\ AllDeleted /\ OldestFirst
    /\ Len(deleted) = 4
    /\ {r.LastModified : r \in remote} = {5, 6, 7}

\* ------------------------------------------- properties: temp directory
\* C14: once an archive-mode run has returned, on success, upload failure,
\* cancellation or builder failure, no archive file of the run, complete or
\* partial, is left in the temp directory.
C14_NoArchiveFileLeft == \A e \in Returned : archiveFile[e] \in {"none", "removed"}

\* ---------------------------------------------------------------- config store properties
\* no two backends and no two tasks of the document share an ID
UniqueIDs(doc) ==
    /\ \A i, j \in DOMAIN doc.Backends : doc.Backends[i].ID = doc.Backends[j].ID => i = j
    /\ \A i, j \in DOMAIN doc.Tasks : doc.Tasks[i].ID = doc.Tasks[j].ID => i = j

\* a step that is an Add with an ID the document already holds fails and
\* changes neither the document nor the file
DuplicateAddRejected ==
    /\ \A b \in BackendInputs, u \in Uuids, saveOk \in BOOLEAN :
          (HasBackend(config, AssignedID(b, u)) /\ AddBackend(b, u, saveOk))
              => (config' = config /\ disk' = disk /\ lastCall' \notin {"ok", "save_failed"})
    /\ \A t \in TaskInputs, u \in Uuids, saveOk \in BOOLEAN :
          (HasTask(config, AssignedID(t, u)) /\ AddTask(t, u, saveOk))
              => (config' = config /\ disk' = disk /\ lastCall' \notin {"ok", "save_failed"})

\* C15: after any sequence of store mutations the config never holds two
\* backends with the same ID nor two tasks with the same ID, and an Add with
\* an ID already present fails and leaves the config unchanged.
C15_IDsUnique == [](UniqueIDs(config)) /\ [][DuplicateAddRejected]_vars

\* two backends and two tasks are held, and an Add was just refused as a duplicate
C15_Witness ==
    /\ Len(config.Backends) = 2
    /\ Len(config.Tasks) = 2
    /\ lastCall = "duplicate"

\* every backend ID a task lists is the ID of a backend of the document
ReferencesResolve(doc) ==
    \A i \in DOMAIN doc.Tasks : \A j \in DOMAIN doc.Tasks[i].BackendIDs :
        HasBackend(doc, doc.Tasks[i].BackendIDs[j])

\* a step that is a DeleteBackend of a backend some task lists fails and
\* removes nothing
ReferencedDeleteRejected ==
    \A id \in BackendIDArgs, saveOk \in BOOLEAN :
        (InUse(config, id) /\ DeleteBackend(id, saveOk))
            => (config' = config /\ disk' = disk /\ lastCall' \notin {"ok", "save_failed"})

\* C16: after any sequence of store mutations every backend ID listed by a
\* task is the ID of a backend in the config, and DeleteBackend of a
\* backend referenced by a task fails and removes nothing.
C16_ReferentialIntegrity == [](ReferencesResolve(config)) /\ [][ReferencedDeleteRejected]_vars

\* a task lists a backend, and deleting that backend was just refused
C16_Witness ==
    /\ lastCall = "in_use"
    /\ \E i \in DOMAIN config.Tasks : Len(config.Tasks[i].BackendIDs) > 0
    /\ ReferencesResolve(config)

\* the mandatory fields are populated and no task lists a backend twice
FieldsPopulated(doc) ==
    /\ \A i \in DOMAIN doc.Tasks :
          /\ doc.Tasks[i].Name # ""
          /\ doc.Tasks[i].SourcePath # ""
          /\ Len(doc.Tasks[i].BackendIDs) >= 1
          /\ \A j, k \in DOMAIN doc.Tasks[i].BackendIDs :
                doc.Tasks[i].BackendIDs[j] = doc.Tasks[i].BackendIDs[k] => j = k
    /\ \A i \in DOMAIN doc.Backends :
          /\ doc.Backends[i].Name # ""
          /\ doc.Backends[i].Type # ""

\* C17: every write is validated: every task has a name, a source path and
\* at least one backend ID with no duplicates, every backend has a name and
\* a type, and the persisted document passes the validation Load applies.
C17_WritesValidated == FieldsPopulated(config) /\ validate(disk)

\* no step that returns the error of a failed save changes the in-memory config
FailedSaveRestores == lastCall' = "save_failed" => config' = config

\* C18: when persisting fails inside a mutation the in-memory config is the
\* same as before the call, so the in-memory config never differs from the
\* last successfully persisted document.
C18_FailedPersistRolledBack == [](config = disk) /\ [][FailedSaveRestores]_vars

\* a step in which a caller assigns to a value a read returned
CallerActs == getConfig \/ \E place \in AllPlaces : CallerWrite(place)

\* C19: what the reads return are defensive copies: no assignment a caller
\* makes to a returned value, its backends list, a backend's config map or a
\* task's backend_ids included, changes the store's in-memory config.
C19_ReadsAreCopies == [][CallerActs => config' = config]_vars

\* ---------------------------------------------------------------- sync properties
\* the listed entries
Listed == {remoteFiles[i] : i \in DOMAIN remoteFiles}

\* the local file the entry is the remote copy of, if any: Sync uploads a
\* local file to RemotePath/RelativePath
HasLocalCounterpart(entry) ==
    \E f \in localFiles : JoinPath(syncer.RemotePath, f.RelativePath) = entry.Path

\* C20: the classification is complete and exclusive: each local file is in
\* exactly one of the upload set and the skip set, and a remote entry with
\* no local counterpart is in the delete set if and only if delete_remote
\* is set.
C20_ClassificationComplete ==
    details.op # "none" =>
        /\ \A f \in localFiles :
              (f.RelativePath \in details.FilesToUpload) # (f.RelativePath \in details.FilesToSkip)
        /\ \A r \in Listed :
              ~HasLocalCounterpart(r) => (r.Path \in details.FilesToDelete <=> syncer.DeleteRemote)

\* the listed entry that is the remote copy of local file f: the one at
\* RemotePath/RelativePath
OwnEntries(f) == {r \in Listed : r.Path = JoinPath(syncer.RemotePath, f.RelativePath)}

\* the decision table: decision and reason label for a local file
TableRow(f) ==
    IF OwnEntries(f) = {} THEN <<"upload", "New file">>
    ELSE LET r == CHOOSE r \in OwnEntries(f) : TRUE
         IN IF f.Size # r.Size THEN <<"upload", "Size changed">>
            ELSE IF r.LastModified.ok /\ f.ModTime > r.LastModified.sec + 1
            THEN <<"upload", "Modified timestamp newer">>
            ELSE <<"skip", "Unchanged">>

\* C21: the decision per local file follows the table: no remote entry,
\* upload as `New file`; size differs, upload as `Size changed`; size equal
\* and local modTime more than one second after the remote lastModified,
\* upload as `Modified timestamp newer`; otherwise, an unparsable remote
\* lastModified included, skip as `Unchanged`.
C21_DecisionTable ==
    details.op = "DryRun" =>
        \A f \in localFiles :
            /\ details.Reason[f.RelativePath] = TableRow(f)[2]
            /\ f.RelativePath \in details.FilesToUpload <=> TableRow(f)[1] = "upload"
            /\ f.RelativePath \in details.FilesToSkip <=> TableRow(f)[1] = "skip"

\* Sync has returned a result
Synced == syncPc = "returned" /\ details.op = "Sync"

\* what DryRun reports for the local tree, the listing and the options
Planned == Classify("DryRun", localFiles, remoteFiles, syncer)

\* C22: DryRun reports the plan Sync executes: the files Sync calls Upload
\* for are DryRun's upload set, the files it skips the skip set, the paths it
\* calls Delete for the delete set, and DryRun calls neither Upload nor
\* Delete.
C22_DryRunIsThePlan ==
    /\ Synced =>
          /\ details.FilesToUpload = Planned.FilesToUpload
          /\ details.FilesToSkip = Planned.FilesToSkip
          /\ details.FilesToDelete = Planned.FilesToDelete
    /\ syncPc = "planned" => (details = Planned /\ syncCalls = <<>>)

\* a Sync that followed a DryRun and uploaded, skipped and deleted
C22_Witness ==
    /\ Synced
    /\ details.FilesToUpload # {}
    /\ details.FilesToSkip # {}
    /\ details.FilesToDelete # {}

\* the calls that returned no error
Succeeded(result) == result.FilesUploaded + result.FilesDeleted

\* C23: a failing Upload or Delete is recorded in the error list and every
\* remaining file is still processed, uploads first and deletions after
\* them; the backend's result is failed if and only if the error list is
\* not empty or the scan or the listing failed.
C23_ErrorsDoNotAbort ==
    /\ Synced =>
          /\ \A f \in localFiles :
                f.RelativePath \in details.FilesToUpload \cup details.FilesToSkip
          /\ syncer.DeleteRemote =>
                Cardinality(details.FilesToDelete) =
                    Cardinality(DOMAIN remoteFileMap(syncer.RemotePath, remoteFiles)
                                    \ {f.RelativePath : f \in localFiles})
          /\ \A i, j \in DOMAIN syncCalls :
                (syncCalls[i].op = "Delete" /\ syncCalls[j].op = "Upload") => j < i
          /\ Len(syncCalls) = Succeeded(syncResult) + Len(syncResult.Errors)
    /\ syncPc = "returned" =>
          (backendResult.Status = "failed" <=> (Len(syncResult.Errors) > 0 \/ ~Synced))

\* the first Upload failed, and an Upload and a Delete were made after it
C23_Witness ==
    /\ Synced
    /\ Len(syncResult.Errors) > 0
    /\ Len(syncCalls) >= 3
    /\ syncCalls[1].op = "Upload" /\ syncResult.Errors[1] = syncCalls[1].rel
    /\ syncCalls[2].op = "Upload"
    /\ syncCalls[3].op = "Delete"
    /\ backendResult.Status = "failed"


\* ----------------------------------------------------- sync run properties
\* C24: in sync mode the execution's archive_size is the sum over all
\* backends of the run of the bytes of the files uploaded to that backend,
\* the bytes uploaded to a backend whose result is failed included
C24_ArchiveSizeIsBytesUploaded ==
    runPc = "done" => runExecution.ArchiveSize = sent

\* ------------------------------------------------- scheduler properties
\* the task is deleted, disabled or manual
NotToRun(id) ==
    \/ ~HasSchedTask(schedTasks, id)
    \/ ~Schedulable(schedTasks[FirstIndex(schedTasks, id)])

\* neither the entry map nor the cron driver holds an entry for the task
NoEntryFor(id) == id \notin DOMAIN entries /\ \A e \in cronEntries : e.Task # id

\* C26: after any sequence of Start, ScheduleTask, UnscheduleTask,
\* ReloadSchedules and the API's create, update, enable, disable and delete,
\* a manual, a disabled and a deleted task have no scheduler entry, so no
\* callback dispatches them; after UnscheduleTask(id) the map has no entry
\* for id and GetNextRun(id) answers "task not scheduled" exactly then
C26_OnlyRunnableTasksScheduled ==
    Serving =>
        /\ \A id \in SchedTaskIDs : NotToRun(id) => NoEntryFor(id)
        /\ lastOp.op = "UnscheduleTask" => lastOp.id \notin DOMAIN entries
        /\ lastOp.op = "GetNextRun" =>
              (lastOp.err = "task not scheduled" <=> lastOp.id \notin DOMAIN entries)

\* the cron expression the table gives a schedule, "" where it gives none
TableExpr(schedule) ==
    IF schedule.Type = "simple"
    THEN CASE schedule.SimpleType = "hourly"  -> "0 * * * *"
           [] schedule.SimpleType = "daily"   -> "0 2 * * *"
           [] schedule.SimpleType = "weekly"  -> "0 2 * * 0"
           [] schedule.SimpleType = "monthly" -> "0 2 1 * *"
           [] OTHER -> ""
    ELSE IF schedule.Type = "cron" THEN schedule.CronExpr
    ELSE ""

\* the cron driver holds one entry for the task, with the given expression,
\* and the entry map points at it
OneEntry(id, expr) ==
    /\ id \in DOMAIN entries
    /\ {e \in cronEntries : e.Task = id} = {[ID |-> entries[id], Task |-> id, Expr |-> expr]}

\* C27: a declared schedule is registered under the cron expression of the
\* table: hourly "0 * * * *", daily "0 2 * * *", weekly "0 2 * * 0", monthly
\* "0 2 1 * *", type cron the user's string; an empty cron string, type
\* manual, an unknown type and an unknown simple type give an error and no
\* entry (as does a string the cron driver refuses)
C27_ScheduleTable ==
    lastOp.op = "Start" =>
        \A i \in DOMAIN schedTasks :
            LET task == schedTasks[i]
                expr == TableExpr(task.Schedule)
            IN /\ scheduleToCron(task.Schedule).expr = expr
               /\ scheduleToCron(task.Schedule).err = "" <=> expr # ""
               /\ IF task.Enabled /\ CronParses(expr)
                  THEN OneEntry(task.ID, expr)
                  ELSE NoEntryFor(task.ID)

C27_Witness ==
    /\ lastOp.op = "Start"
    /\ Len(schedTasks) = 2
    /\ schedTasks[1].Enabled /\ schedTasks[1].Schedule = SimpleSchedule("weekly")
    /\ schedTasks[2].Enabled /\ schedTasks[2].Schedule = CronSchedule("")
    /\ OneEntry("t1", "0 2 * * 0")
    /\ NoEntryFor("t2")

\* C25: ScheduleTask is idempotent: when the ScheduleTask calls for an
\* enabled non-manual task have returned, sequential or concurrent, the cron
\* driver holds exactly one entry that dispatches the task and the entry map
\* points at it
C25_ScheduleTaskIdempotent ==
    (Serving /\ lastOp.op = "ScheduleTask" /\ lastOp.err = "") =>
        LET task == schedTasks[FirstIndex(schedTasks, lastOp.id)]
        IN Schedulable(task) => OneEntry(task.ID, TableExpr(task.Schedule))

\* a ReloadSchedules is between the removal of the old entries and its return
InSwap(p) == proc[p].op = "ReloadSchedules" /\ proc[p].pc # "idle"

\* a step in which a goroutine other than p takes the mutex of the entry map
MapAccessBeside(p) ==
    \/ \E q \in SchedProcs \ {p} : StepUnschedule(q) \/ StepSetEntry(q)
    \/ \E id \in SchedTaskIDs : UnscheduleTask(id) \/ GetNextRun(id)

\* every entry of the cron driver is the one the entry map holds for a task
Referenced == \A e \in cronEntries : \E id \in DOMAIN entries : entries[id] = e.ID

\* C28: while a ReloadSchedules is between the removal of the old entries
\* and the registration of the new ones, no step of another goroutine reads
\* the entry map for a caller or changes it; and when a reload that ran
\* beside ScheduleTask(id) has returned, the cron driver holds no entry the
\* entry map does not reference
C28_ReloadIsOneCriticalSection ==
    [][/\ \A p \in SchedProcs : InSwap(p) => ~MapAccessBeside(p)
       /\ Serving' => Referenced']_vars

\* --------------------------------------------------- history properties
\* C29: ClearHistory is atomic: the two tables are at every moment either as
\* they were when it was called or both empty; it returns nil only with both
\* empty, and when a step failed both are as they were
C29_ClearHistoryAtomic ==
    clearPc # "off" =>
        LET now == Tables(backend_uploads, executions)
        IN /\ now = histBefore \/ now = Tables(NoUploads, <<>>)
           /\ (clearPc = "returned" /\ clearErr = "") => now = Tables(NoUploads, <<>>)
           /\ (clearPc = "returned" /\ clearErr # "") => now = histBefore

\* the delete of executions failed after the delete of backend_uploads went
\* through, on a database with rows in both tables
C29_Witness ==
    /\ clearPc = "returned"
    /\ clearErr = "failed to delete executions: %w"
    /\ histBefore.executions # <<>>
    /\ \E e \in ExecIDs : histBefore.backend_uploads[e] # <<>>
    /\ Tables(backend_uploads, executions) = histBefore

\* --------------------------------------------------- dry run properties
\* C30: ExecuteDryRun changes nothing: no execution row and no backend
\* upload row is created or updated, no entry is added to the running map,
\* no event is emitted, no task's last run changes, and no writing operation
\* is called on any backend, whose contents stay as they were
C30_DryRunChangesNothing ==
    dryPc # "off" =>
        /\ executions = <<>>
        /\ backend_uploads = NoUploads
        /\ running = <<>>
        /\ events = [e \in ExecIDs |-> <<>>]
        /\ lastRun = [t \in TaskIDs |-> 0]
        /\ backendWrites = <<>>
        /\ backendDir = dirBefore

\* ------------------------------------------------------------- Execute
\* shared state of the executor and the history store: nothing but the
\* caller's own position and locals, and the count of environment failures
ExecuteEffects == <<running, cancelledAt, executions, backend_uploads, events, pc, exec,
                    lastRun, calls, attempts>>

\* C31: every step of an Execute call that returns an error, and the
\* tests of a call that go on to create a row, add no execution row, leave
\* the running map as it was, emit no event and start no run body
C31_RefusedExecuteHasNoEffect ==
    [][\A c \in Callers :
          (\/ refused' # refused
           \/ callerPc[c] = "idle" /\ callerPc'[c] = "create")
          => UNCHANGED ExecuteEffects]_vars

\* an Execute was refused for the run in flight, after a row could not be created
C31_Witness ==
    /\ refused.err = "task is already running"
    /\ faults = 1
    /\ \E e \in ExecIDs : pc[e] = "spawned" /\ exec[e].TaskID \in DOMAIN running

\* ------------------------------------------------------------ filenames
\* the characters of [a-z0-9._-] among NameChars and their lower case forms
InClass(c) == c \in {"a", "t", "7", ".", "_", "-"}

\* C32: sanitizeFilename applied to its own result returns it unchanged,
\* and its result on a task name is non-empty and holds only characters of
\* [a-z0-9._-]
C32_SanitizeIdempotentInClass ==
    /\ Len(sanitized) = 2 => sanitized[2] = sanitized[1]
    /\ Len(sanitized) >= 1 =>
          /\ sanitized[1] # <<>>
          /\ \A i \in DOMAIN sanitized[1] : InClass(sanitized[1][i])

\* ------------------------------------------------------------- progress
\* the runs inside WriteJSON on connection c
Writers(c) == {r \in Emitters : emitPc[r] = "writing" /\ emitConn[r] = c}

\* C33: no two runs are inside a write to the same connection at once, and
\* every run reaches its end whatever the observers do, also when one stops
\* consuming
C33_EmitNeverBlocks ==
    /\ [](\A c \in Conns : Cardinality(Writers(c)) <= 1)
    /\ \A r \in Emitters : <>(emitPc[r] = "done")

\* -------------------------------------------------------------- builder
\* C34: the hash and the size createTarGz returns are those of the output
\* file as it is once the function has returned: nothing is written to the
\* file after they were read
C34_DigestOfFinishedArchive ==
    (tarPc \in {"returned", "end"} /\ tarResult.err = "")
    => (tarResult.hash = Sha256(outFile) /\ tarResult.size = Size(outFile))

\* the entries that have been given to the tar writer
Archived == {b[2] : b \in {c \in Range(gzipBuf \o outFile) : c[1] = "header"}}

\* C35: once the run is cancelled during the walk, no further entry is
\* added to the archive and no upload of the archive is started
C35_CancelStopsTheWalk ==
    [][tarCancelledAt = "walking"
       => (Archived' = Archived /\ tarUploads' = tarUploads)]_vars

\* ----------------------------------------------------------- range loop
\* the task an entry was registered for
RegisteredFor(n) == (CHOOSE cb \in callbacks : cb.Entry = n).For

C37_LastRunAndNextRunIndependent ==
    \A id \in TimedTasks :
        /\ taskTimes[id].LastRun = finishedAt[id]
        /\ taskTimes[id].NextRun = computedNext[id]

\* ------------------------------------------------------- shared backend
\* the archives GenerateFilename names for a task
ArchivesOf(name) == {GenerateFilename(name, Stamps[i]) : i \in DOMAIN Stamps}

\* C38: retention of a task calls Delete on no archive of another task
\* that uploads to the same backend, also when the task's name followed by
\* "_" starts the other's name
C38_RetentionSparesOtherTasks ==
    \A i \in DOMAIN deleted :
        \A o \in SharedNames \ {trimTask.Name} : deleted[i] \notin ArchivesOf(o)

\* --------------------------------------------- history and runs in flight
\* every backend_uploads row belongs to a row of executions
UploadsHaveExecution ==
    \A e \in ExecIDs : backend_uploads[e] # <<>> => e \in DOMAIN executions

\* an UpdateExecution that returned nil left the execution's row with the
\* status the run ended in
TerminalUpdateStored ==
    \A e \in ExecIDs :
        updateCalls'[e] # updateCalls[e] =>
            /\ e \in DOMAIN executions'
            /\ executions'[e].status = exec'[e].Status

\* C39: whatever the interleaving of ClearHistory with a run in flight,
\* no backend_uploads row is left without its execution row and the run's
\* terminal update, which reported no error, is stored
C39_ClearHistoryKeepsRunsWhole ==
    /\ [](UploadsHaveExecution)
    /\ [][TerminalUpdateStored]_vars

\* ------------------------------------------------- the handle of a run
\* Execute has returned the execution's ID and its run body has not finished
InFlight(e) == pc[e] \notin {"none", "done"}

\* e.running holds the task's entry with the ID of the execution in flight
Tracked(e) == /\ exec[e].TaskID \in DOMAIN running
              /\ running[exec[e].TaskID] = e

\* a step that cancels a context cancels the context of one execution,
\* which is in flight
CancelsOneInFlight ==
    \A e \in ExecIDs :
        cancelledAt'[e] # cancelledAt[e] =>
            /\ InFlight(e)
            /\ \A o \in ExecIDs \ {e} : cancelledAt'[o] = cancelledAt[o]

\* C40: from the return of Execute to the end of the run body e.running
\* holds the task's entry with the execution's ID, so that Cancel finds
\* it; Cancel cancels that run only and no run that is not in flight
C40_RunningHoldsRunInFlight ==
    /\ [](\A e \in ExecIDs : InFlight(e) => Tracked(e))
    /\ [][CancelsOneInFlight]_vars

====
